---------------------------- MODULE MCMonitoring ----------------------------
(* A small instance of Monitoring for TLC.                                 *)
EXTENDS Monitoring

CONSTANTS m1, m2, k1

MCReports == {<<"fault", 1>>, <<"healthy", 0>>, <<"healthy", 1>>}
=============================================================================
