-------------------------- MODULE MCWorkflowEngine --------------------------
(* Instance values for model checking WorkflowEngine. *)
EXTENDS WorkflowEngine, TLC

CONSTANTS parent, child, ev

Do(op)        == [op |-> op, of |-> None, timed |-> FALSE]
Event(timed)  == [op |-> "event", of |-> ev, timed |-> timed]
Start         == [op |-> "start", of |-> child, timed |-> FALSE]
Child(timed)  == [op |-> "child", of |-> child, timed |-> timed]

One(calls, H)      == [program |-> (parent :> calls @@ child :> <<>>), roots |-> {parent}, hazards |-> H]
Two(calls, sub, H) == [program |-> (parent :> calls @@ child :> sub), roots |-> {parent}, hazards |-> H]

\* Each call with the hazards that meet it.
EngineWorlds ==
    {One(<<Do("step"), Do("sleep"), Event(TRUE)>>, {"crash", "fail"}),
     One(<<Do("step"), Event(TRUE), Do("step")>>, {"lapse"}),
     One(<<Event(FALSE), Do("step")>>, {"twice", "cancel", "lapse"}),
     One(<<Do("turn"), Do("step")>>, {"lapse"}),
     One(<<Do("turn"), Do("step")>>, {"crash", "cancel"}),
     Two(<<Start, Child(TRUE)>>, <<>>, {"lapse"}),
     Two(<<Start, Child(TRUE)>>, <<Do("step")>>, {"crash"}),
     Two(<<Start, Child(TRUE)>>, <<>>, {"cancel"}),
     One(<<Do("step"), Event(TRUE)>>, {"unknown", "lapse"}),
     Two(<<Start, Child(TRUE)>>, <<>>, {"unknown", "cancel"})}

\* A run that waits for an event, with nothing that goes wrong.
EventWorlds == {One(<<Event(FALSE)>>, {})}
=============================================================================
