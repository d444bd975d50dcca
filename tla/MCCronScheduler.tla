---------------------------- MODULE MCCronScheduler ----------------------------
EXTENDS CronScheduler

CONSTANT c1
=============================================================================
