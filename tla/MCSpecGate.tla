------------------------------ MODULE MCSpecGate ------------------------------
(***************************************************************************)
(* A spec with a goal, a requirement with an acceptance criterion, a       *)
(* design and a finding, each with the states the rules tell apart.        *)
(***************************************************************************)
EXTENDS SpecGate

Block(p) == [prefix |-> p, home |-> "spec", n |-> 1]
GOAL == Block("GOAL")
REQ == Block("REQ")
AC == Block("AC")
DES == Block("DES")
RAF == Block("RAF")
MCId == {GOAL, REQ, AC, DES, RAF}

MCCall(f, rel, t) == [from |-> f, rel |-> rel, to |-> t]
MCCalls == {MCCall(REQ, "derives-from", GOAL), MCCall(DES, "realizes", REQ),
            MCCall(DES, "realizes", AC), MCCall(RAF, "affects", GOAL)}

Gone == {[state |-> "missing"]}
Goal(state, priority) == [state |-> state, priority |-> priority]
Req(state, priority, type, acceptance) ==
  [state |-> state, priority |-> priority, type |-> type, acceptance |-> acceptance]
Raf(severity, route, st, by) ==
  [state |-> "live", severity |-> severity, route |-> route, type |-> "gap",
   status |-> st, by |-> by, recorded |-> st # "open"]

MCWritten ==
  [id \in MCId \ {AC} |->
     Gone \cup
     CASE id = GOAL -> {Goal("live", "must"), Goal("live", "could")}
       [] id = REQ -> {Req("live", "must", "functional", {AC}), Req("live", "wont", "nfr", {AC}),
                       Req("withdrawn", "must", "functional", {AC})}
       [] id = DES -> {[state |-> "live"], [state |-> "withdrawn"]}
       [] id = RAF -> {Raf("blocker", "human", "open", "none"),
                       Raf("major", "self", "accepted-risk", "req-analysis"),
                       Raf("major", "human", "resolved", "alice")}]
=============================================================================
