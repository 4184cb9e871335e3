------------------------------ MODULE ProcessTree ------------------------------
(* daemon.py's walk from a process to the GUI application that owns it.        *)
(* A process table is a record: parent gives each live process its ppid,       *)
(* launchd being 1, and app is the set of those that are bundled applications. *)
EXTENDS Integers, FiniteSets

CONSTANTS
    MaxDepth,   \* max_depth of the walk
    TreePids    \* the pids of the process tables WalkIsNearest ranges over

ASSUME MaxDepthAssumption == MaxDepth \in Nat
ASSUME TreePidsAssumption == IsFiniteSet(TreePids) /\ TreePids \subseteq Nat \ {0, 1}

NoPid == 0

(* The ppid chain: the process after k steps, NoPid where ps finds nothing.    *)
PpidChain(table, pid) ==
    LET chain[k \in 0 .. MaxDepth] ==
            IF k = 0 THEN pid
            ELSE IF chain[k - 1] \in DOMAIN table.parent THEN table.parent[chain[k - 1]]
            ELSE NoPid
    IN chain

(* The application is found at the k-th step of the walk if it is one and the  *)
(* walk got past every process before it.                                      *)
(* Mutant: the parent is looked at before the process itself.                  *)
ParentFirst(table, pid) ==
    LET chain == PpidChain(table, pid)
        Found(k) == /\ chain[k] \in table.app
                    /\ \A j \in 0 .. k : table.parent[chain[j]] > 1
                    /\ \A j \in 0 .. (k - 1) : chain[j] \notin table.app
        steps == {k \in 0 .. (MaxDepth - 1) : Found(k)}
    IN IF steps = {} THEN NoPid ELSE chain[CHOOSE k \in steps : TRUE]

gui_app_ancestor_pid(table, pid) ==
    LET chain == PpidChain(table, pid)
        Found(k) == /\ chain[k] \in table.app
                    /\ \A j \in 0 .. (k - 1) :
                          chain[j] \notin table.app /\ table.parent[chain[j]] > 1
        steps == {k \in 0 .. (MaxDepth - 1) : Found(k)}
    IN IF steps = {} THEN NoPid ELSE chain[CHOOSE k \in steps : TRUE]

--------------------------------------------------------------------------------
(* The reference: a process and all above it, the least set closed under       *)
(* parent, and how far up a process is.                                        *)
Above(table, pid) ==
    {q \in DOMAIN table.parent :
        \A S \in SUBSET DOMAIN table.parent :
            /\ pid \in S
            /\ \A r \in S : table.parent[r] \in DOMAIN table.parent => table.parent[r] \in S
            => q \in S}

(* What ps tells of: finitely many processes, none of which descends from      *)
(* itself.                                                                     *)
ProcessTable(table) ==
    LET pids == DOMAIN table.parent
    IN /\ IsFiniteSet(pids) /\ pids \subseteq Nat \ {0, 1}
       /\ \A p \in pids :
              /\ table.parent[p] \in Nat
              /\ table.parent[p] \in pids => p \notin Above(table, table.parent[p])
       /\ table.app \subseteq pids

Tables ==
    {table \in [parent : [TreePids -> TreePids \cup {1}], app : SUBSET TreePids] :
        ProcessTable(table)}

(* Above a process, found is the nearest application, itself included; none is *)
(* found only if none is within reach.                                         *)
IsNearest(table, pid, found) ==
    LET apps == Above(table, pid) \cap table.app
        Below(a) == {q \in Above(table, pid) : a \in Above(table, q) /\ q # a}
    IN IF found = NoPid THEN \A a \in apps : Cardinality(Below(a)) >= MaxDepth
       ELSE found \in apps /\ apps \subseteq Above(table, found)

WalkIsNearest ==
    \A table \in Tables, p \in TreePids : IsNearest(table, p, gui_app_ancestor_pid(table, p))
================================================================================
