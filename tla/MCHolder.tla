-------------------------------- MODULE MCHolder --------------------------------
EXTENDS Holder
================================================================================
