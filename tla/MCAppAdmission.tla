---------------------------- MODULE MCAppAdmission ----------------------------
EXTENDS AppAdmission, TLC

CONSTANTS m1, m2, m3

MCSymmetry == Permutations(Msg)
=============================================================================
