------------------------------ MODULE MCLinkStore ------------------------------
(***************************************************************************)
(* A small instance of LinkStore: a finding and a requirement of the spec, *)
(* a goal, a glossary term and a sibling's requirement; two steps, one of  *)
(* them limited to `affects`, and a person who may write wrong links.      *)
(***************************************************************************)
EXTENDS LinkStore

Block(p, k) == [prefix |-> p, home |-> "spec", n |-> k]
RAF == Block("RAF", 1)
REQ == Block("REQ", 1)
GOAL == Block("GOAL", 1)
TERM == [prefix |-> "TERM", home |-> "domain", n |-> 1]
MCId == {RAF, REQ, GOAL, TERM}

MCCall(f, rel, t) == [from |-> f, rel |-> rel, to |-> t]
MCCalls == { MCCall(RAF, "affects", GOAL), MCCall(RAF, "affects", TERM),
             MCCall(REQ, "derives-from", GOAL), MCCall(REQ, "affects", GOAL) }

\* A person writes a correct link, one that repeats a step's, and one the rules forbid.
MCPerson(f, rel, t) == [from |-> f, rel |-> rel, to |-> t, by |-> "human", run |-> "none"]
MCHumanLinks == { MCPerson(RAF, "affects", GOAL), MCPerson(GOAL, "affects", RAF) }
=============================================================================
