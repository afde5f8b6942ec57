---------------------------- MODULE MCPcTimers ------------------------------
(* A small instance of PcTimers: the counter timer and two device timers.  *)
EXTENDS PcTimers

\* Two delays within the counter's interval and one beyond it, so that both
\* kinds of timer expire before, with and after the counter timer.
MCDelays == {1, 2, 5}
=============================================================================
