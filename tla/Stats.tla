------------------------------- MODULE Stats -------------------------------
(***************************************************************************)
(* What a process counts: the tree of RPC statistics of rpc/stats.go, which*)
(* concurrent calls extend and update.                                     *)
(*                                                                         *)
(* A node of the tree is a number, 0 the root; tree, counted and top are   *)
(* the maps of the nodes: the children, the calls in "count" and "maxtime".*)
(* An operation of an expvar.Map or expvar.Int is atomic; Child and max    *)
(* make several.                                                           *)
(***************************************************************************)
EXTENDS Naturals, Sequences, Functions

CONSTANTS
    StatsCalls,     \* bound: the calls there are
    Addr, Method,   \* what Start is given for each call; NoAddr on a server
    NoAddr,
    Elapsed         \* how long each call takes

ASSUME StatsAssumption == Elapsed \in [StatsCalls -> Nat]

VARIABLES
    callPc,     \* where each call is
    at,         \* the node its Path has come to
    rest,       \* the names its Path still has to follow
    todo,       \* the paths still to follow
    done,       \* the calls that are done
    mu,         \* who holds the mutex of a node: a set of <<node, call>>
    tree,       \* a set of <<node, name, child>>
    nodes,      \* how many nodes were made
    counted,    \* a set of <<node, call>>
    top,        \* a set of <<node, value>>
    raced       \* nodes where two calls were in max at once

walkVars == <<at, rest, todo>>
treeVars == <<mu, tree, nodes>>
valueVars == <<counted, top, raced>>
statsVars == <<callPc, walkVars, done, treeVars, valueVars>>

\* The paths of a call.
paths(c) ==
    <<<<"method", Method[c]>>>>
    \o (IF Addr[c] = NoAddr THEN <<>> ELSE <<<<"machine", Addr[c], "method", Method[c]>>>>)

StatsInit ==
    /\ callPc = [c \in StatsCalls |-> "path"] /\ at = [c \in StatsCalls |-> 0]
    /\ rest = [c \in StatsCalls |-> <<>>] /\ todo = [c \in StatsCalls |-> paths(c)]
    /\ done = {} /\ mu = {} /\ tree = {} /\ nodes = 0
    /\ counted = {} /\ top = {} /\ raced = {}

go(c, l) == callPc' = [callPc EXCEPT ![c] = l]

\* Map.Get of a child: a set with the child, or empty.
get(n, name) == {t[3] : t \in {u \in tree : u[1] = n /\ u[2] = name}}

only(S) == CHOOSE x \in S : TRUE

-----------------------------------------------------------------------------
(* Path and Child.                                                         *)

\* The next path is walked from the root, at Start and when the call is done.
Path(c) ==
    /\ callPc[c] = "path"
    /\ IF todo[c] = <<>>
       THEN go(c, IF c \in done THEN "end" ELSE "rpc") /\ UNCHANGED walkVars
       ELSE /\ go(c, "child")
            /\ at' = [at EXCEPT ![c] = 0]
            /\ rest' = [rest EXCEPT ![c] = Head(todo[c])]
            /\ todo' = [todo EXCEPT ![c] = Tail(@)]
    /\ UNCHANGED <<done, treeVars, valueVars>>

moveTo(c, n) ==
    /\ at' = [at EXCEPT ![c] = n]
    /\ rest' = [rest EXCEPT ![c] = Tail(@)]
    /\ go(c, IF Len(rest[c]) > 1 THEN "child" ELSE IF c \in done THEN "max" ELSE "add")

\* Child, first without the mutex.
Child(c) ==
    /\ callPc[c] = "child"
    /\ LET found == get(at[c], Head(rest[c]))
       IN  IF found = {} THEN go(c, "lock") /\ UNCHANGED <<at, rest>> ELSE moveTo(c, only(found))
    /\ UNCHANGED <<todo, done, treeVars, valueVars>>

Lock(c) ==
    /\ callPc[c] = "lock" /\ ~ \E d \in StatsCalls : <<at[c], d>> \in mu
    /\ mu' = mu \cup {<<at[c], c>>}
    /\ go(c, "locked")
    /\ UNCHANGED <<walkVars, done, tree, nodes, valueVars>>

\* Faulty variant: the child is not looked up again with the mutex held.
ChildLockedOnce(c) ==
    /\ callPc[c] = "locked"
    /\ go(c, "make")
    /\ UNCHANGED <<walkVars, done, treeVars, valueVars>>

\* Child with the mutex: another call may have made it.
ChildLocked(c) ==
    /\ callPc[c] = "locked"
    /\ LET found == get(at[c], Head(rest[c]))
       IN  IF found = {} THEN go(c, "make") /\ UNCHANGED <<at, rest, mu>>
           ELSE moveTo(c, only(found)) /\ mu' = mu \ {<<at[c], c>>}
    /\ UNCHANGED <<todo, done, tree, nodes, valueVars>>

\* A new treestats is set as the child, and the mutex unlocked.
MakeChild(c) ==
    /\ callPc[c] = "make"
    /\ nodes' = nodes + 1
    /\ tree' = {t \in tree : ~(t[1] = at[c] /\ t[2] = Head(rest[c]))}
               \cup {<<at[c], Head(rest[c]), nodes + 1>>}
    /\ mu' = mu \ {<<at[c], c>>}
    /\ moveTo(c, nodes + 1)
    /\ UNCHANGED <<todo, done, valueVars>>

\* Add("count", 1).
Add(c) ==
    /\ callPc[c] = "add"
    /\ counted' = counted \cup {<<at[c], c>>}
    /\ go(c, "path")
    /\ UNCHANGED <<walkVars, done, treeVars, top, raced>>

-----------------------------------------------------------------------------
(* The call is done: maxtime at each of its paths.                         *)

RpcDone(c) ==
    /\ callPc[c] = "rpc"
    /\ go(c, "path")
    /\ done' = done \cup {c}
    /\ todo' = [todo EXCEPT ![c] = paths(c)]
    /\ UNCHANGED <<at, rest, treeVars, valueVars>>

\* Value, which is 0 before the first Set.
values(n) == {t[2] : t \in {u \in top : u[1] = n}}
value(n) == IF values(n) = {} THEN 0 ELSE only(values(n))

\* Faulty variant: sets whatever value the call has.
maxReadAlways(c) ==
    /\ callPc[c] = "max"
    /\ go(c, "set")
    /\ UNCHANGED <<walkVars, done, treeVars, counted, top, raced>>

\* max compares with Value.
maxRead(c) ==
    /\ callPc[c] = "max"
    /\ IF Elapsed[c] > value(at[c])
       THEN /\ go(c, "set")
            /\ raced' = raced \cup {at[d] : d \in {e \in StatsCalls : callPc[e] = "set" /\ at[e] = at[c]}}
       ELSE go(c, "path") /\ UNCHANGED raced
    /\ UNCHANGED <<walkVars, done, treeVars, counted, top>>

\* And then sets.
maxSet(c) ==
    /\ callPc[c] = "set"
    /\ top' = {t \in top : t[1] # at[c]} \cup {<<at[c], Elapsed[c]>>}
    /\ go(c, "path")
    /\ UNCHANGED <<walkVars, done, treeVars, counted, raced>>

-----------------------------------------------------------------------------
CallNext(c) ==
    \/ Path(c) \/ Child(c) \/ Lock(c) \/ ChildLocked(c) \/ MakeChild(c)
    \/ Add(c) \/ RpcDone(c) \/ maxRead(c) \/ maxSet(c)

StatsNext == \E c \in StatsCalls : CallNext(c)

StatsSpec == StatsInit /\ [][StatsNext]_statsVars

-----------------------------------------------------------------------------
(* Properties.                                                             *)

\* The nodes, one at most, that the names of p lead to in the tree T, the first
\* name of them, the first two and so on.
reached(T, p) ==
    LET f[k \in 0 .. Len(p)] ==
            IF k = 0 THEN {0}
            ELSE {t[3] : t \in {u \in T : u[1] \in f[k - 1] /\ u[2] = p[k]}}
    IN  f
nodesOf(p) == reached(tree, p)[Len(p)]

\* No call is missing from a count: however calls race to make the nodes of a
\* path, what they counted at is the node the path leads to.
CountsKept ==
    \A c \in StatsCalls : callPc[c] = "rpc" \/ c \in done =>
        \A p \in Range(paths(c)) :
            nodesOf(p) # {} /\ \A n \in nodesOf(p) : <<n, c>> \in counted

\* maxtime is the time of a call that is done, and no call took longer, unless
\* two were in max at once: the comparison and the set are not one step.
MaxKept ==
    \A c \in StatsCalls : callPc[c] = "end" =>
        \A p \in Range(paths(c)) : \A n \in nodesOf(p) :
            /\ n \notin raced => value(n) >= Elapsed[c]
            /\ value(n) \in {Elapsed[d] : d \in {e \in StatsCalls : p \in Range(paths(e))}}

=============================================================================
