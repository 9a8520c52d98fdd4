------------------------- MODULE DispatchRefinement -------------------------
(***************************************************************************)
(* The dispatcher implements TaskFeed: its locals are forgotten, the bus   *)
(* is the same, and it may send any well-formed entry.  What is checked    *)
(* of the executors and the repair worker under TaskFeed holds with this   *)
(* dispatcher in front of them.  (With a database: without one there are   *)
(* no rows, and TaskFeed is about rows.)                                   *)
(***************************************************************************)
EXTENDS Dispatcher

Feed == INSTANCE TaskFeed WITH FeedEntries <- ExecEntry

(* Every step of the dispatcher creates, blocks, sends or marks a task the *)
(* way TaskFeed allows, or changes nothing the other workers can see.      *)
ImplementsTaskFeed == Feed!FeedSpec
=============================================================================
