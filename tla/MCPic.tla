------------------------------- MODULE MCPic --------------------------------
(***************************************************************************)
(* Small instances of Pic: three pins to a chip, the master's second one   *)
(* the cascade.                                                            *)
(***************************************************************************)
EXTENDS Pic

\* A device behind the slave, and one on the master that it outranks until the
\* guest changes the order; for the guest that reprograms both chips, one on the
\* master that outranks two behind the slave.
MCDevices == {<<"master", 2>>, <<"slave", 0>>}
CascadeDevices == {<<"master", 0>>, <<"slave", 0>>, <<"slave", 2>>}
MCLevelCapable == {<<"master", 2>>}

\* The master gets every command; the slave those that end an interrupt.
MCCommands ==
  ({"master"} \X {"specific", "rotate", "set_priority", "special_mask",
                  "init", "rotate_on_autoeoi", "elcr"})
    \cup ({"slave"} \X {"specific", "poll"})
InitCommands == Chip \X {"init", "rotate_on_autoeoi"}

\* The master's device is masked alone, the slave's pins all at once.
MCMasks == {<<"master", {}>>, <<"master", {2}>>, <<"slave", {}>>, <<"slave", Pin>>}
EnableAll == Chip \X {{}}
=============================================================================
