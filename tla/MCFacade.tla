------------------------------ MODULE MCFacade -------------------------------
(***************************************************************************)
(* Every operation of the API, alone; and those that make, use and remove  *)
(* the same things, two at a time.                                         *)
(***************************************************************************)
EXTENDS Facade

MCNames == {"a", "b", "c", "power"}

Named(p1, p2) == (P1 :> p1) @@ (P2 :> p2)

Items == {pattern \in {Methods[m].on : m \in DOMAIN Methods} : IsItem(pattern)}

(* Of every kind one item, in the environment a; and one more, named c.    *)
Stocked == {Filled(pattern, Named("a", "b")) : pattern \in Items}
More    == {Append(Front(path), "c") : path \in Stocked}

MCInitial == {{}, Stocked, Stocked \cup More}

Ask(op, p1, query, body, plan) ==
  [op |-> op, names |-> Named(p1, "b"), query |-> query, body |-> body, named |-> "c", plan |-> plan]

(* Every operation with each of its plans, with the query parameters it    *)
(* must have and with all it may have, and with a body nobody can read.    *)
Alone ==
  UNION {{Ask(op, "a", query, "readable", plan) :
            query \in {Wrappers[op].required, Requests[op].query}, plan \in DOMAIN Handlers[op].plans}
         : op \in Operations}
  \cup {Ask(op, "a", {}, "unreadable", 1) : op \in {o \in Operations : Requests[o].body}}
  \cup {Ask("GetSystem", "power", {}, "readable", 1)}

(* Two at a time: what makes, uses and removes the same things.            *)
Simply(op, p1) == Ask(op, p1, Requests[op].query, "readable", 1)

Pairs ==
  LET Environments == {"CreateEnvironment", "CreateLogicalServer", "CreateLocalNetwork",
                       "DeleteLogicalServer", "GetLogicalServer", "AssignComputes",
                       "UpdateEnvironment", "DeleteEnvironment"}
      Networks     == {"CreateGlobalNetwork", "GetGlobalNetwork", "UpdateGlobalNetwork"}
  IN {<<Simply("DeleteEnvironment", "a"), Simply(op, p)>> : op \in Environments, p \in {"a", "c"}}
     \cup {<<Simply("CreateEnvironment", "a"), Simply(op, "c")>> : op \in Environments}
     \cup {<<Simply("DeleteGlobalNetwork", "c"), Simply(op, "c")>> : op \in Networks}
     \cup {<<Ask("UpdateSystem", "a", {}, "readable", 4), Simply("RebootSystem", "a")>>}

MCScripts == {<<r>> : r \in Alone} \cup Pairs

MCRefusals == {403, 500}
=============================================================================
