---------------------------- MODULE MCTicketStore ----------------------------
(***************************************************************************)
(* TicketStore with two tickets of the first epoch, one with more bytes    *)
(* and one with more connections, and one ticket of the second epoch.      *)
(***************************************************************************)
EXTENDS TicketStore

MCOffers ==
    {[epoch |-> 0, conns |-> 1, bytes |-> 1],
     [epoch |-> 0, conns |-> 2, bytes |-> 0],
     [epoch |-> 1, conns |-> 1, bytes |-> 1]}

==============================================================================
