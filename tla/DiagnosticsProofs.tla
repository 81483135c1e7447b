------------------------- MODULE DiagnosticsProofs -------------------------
(***************************************************************************)
(* Proofs about Diagnostics, for any number of machines and requests.      *)
(***************************************************************************)
EXTENDS Diagnostics, TLAPS

\* The prover of the leaves that name none.
USE ZenonT(60)

Asks == {"no", "call", "copy", "have", "sent", "failed"}

\* The calls of a request, by where it is: none before it begins; all returned
\* once it gathers no more; and one machine asked if it has an address.  Only
\* profiles are copied.
AskInv(r) ==
    /\ pc[r] = "idle" => \A m \in Machines : ask[r][m] = "no"
    /\ pc[r] \in {"vars", "emit", "done"} => \A m \in Machines : ask[r][m] \notin {"call", "copy"}
    /\ pc[r] = "vars" => kind[r] = "save" /\ \A m \in Machines : ask[r][m] # "have"
    /\ pc[r] = "one" =>
          /\ kind[r] \in {"cpu", "heap", "save"} /\ \A m \in Machines : ask[r][m] # "have"
          /\ \A m, n \in Machines : ask[r][m] # "no" /\ ask[r][n] # "no" => m = n
    /\ pc[r] = "gather" => kind[r] # "save"
    /\ pc[r] = "emit" => kind[r] \in {"cpu", "heap"}
    /\ \A m \in Machines : ask[r][m] = "copy" => kind[r] \in {"cpu", "heap", "save"}

\* A body is open while it is copied; the files are the profiles gathered and
\* not yet in the response.
FileInv(r) ==
    /\ open[r] = {m \in Machines : ask[r][m] = "copy"}
    /\ files[r] = IF kind[r] \in {"cpu", "heap"} /\ pc[r] # "done" THEN Have(r) ELSE {}

DiagnosticsInv ==
    TypeOK /\ OneProfiler /\ \A r \in Requests : AskInv(r) /\ FileInv(r)

-----------------------------------------------------------------------------
\* Every step is one of these.
LEMMA NextCases ==
    ASSUME [Next]_vars
    PROVE  \/ \E r \in Requests :
                 \/ Marshal(r) \/ MarshalOne(r) \/ SaveProfile(r) \/ writeStatus(r) \/ pprofIndex(r) \/ String(r)
                 \/ StatusRows(r) \/ IndexRows(r) \/ VarsRows(r) \/ VarsError(r) \/ Profiles(r) \/ appendProfile(r)
                 \/ parseProfile(r) \/ Marshaled(r) \/ MarshaledOne(r) \/ saveProfile(r) \/ saveExpvars(r)
           \/ \E r \in Requests, m \in Machines :
                 \/ CallFails(r, m) \/ (\E p \in Parts : allInfo(r, m, p)) \/ ProfileStats(r, m)
                 \/ Expvars(r, m) \/ Profile(r, m) \/ CPUProfile(r, m) \/ New(r, m) \/ CopyOne(r, m)
                 \/ StartCPUProfile(r, m) \/ StreamEnds(r, m)
           \/ \E m \in Machines : MachineStep(m)
           \/ UNCHANGED vars
BY DEF Next, Begins, Calls, Responds, Streams

\* A request begins by asking some machines, or one if it has an address.
LEMMA BeginStep ==
    ASSUME NEW r \in Requests,
           Marshal(r) \/ MarshalOne(r) \/ SaveProfile(r) \/ writeStatus(r) \/ pprofIndex(r) \/ String(r)
    PROVE  \E k \in Kinds \ {"none"}, to \in {"gather", "one"}, asked \in SUBSET Machines, rest \in {"no", "failed"} :
              /\ begin(r, k, to, asked, rest)
              /\ to = "one" => k \in {"cpu", "heap", "save"} /\ rest = "no" /\ \E m \in Machines : asked = {m}
              /\ to = "gather" => k # "save"
              /\ k = "status" => rest = "failed"
              /\ k = "vars" => asked = Owned /\ rest = "no"
              /\ debug' \subseteq debug \cup {r} /\ debug \subseteq debug'
<1>1. CASE Marshal(r)
  <2>1. PICK k \in {"cpu", "heap"} :
            begin(r, k, "gather", Up, "no") /\ debug' \subseteq debug \cup {r} /\ debug \subseteq debug'
    BY <1>1 DEF Marshal
  <2> QED
    BY <2>1 DEF Kinds, Up
<1>2. CASE MarshalOne(r)
  <2>1. PICK k \in {"cpu", "heap"}, m \in Machines :
            begin(r, k, "one", {m}, "no") /\ debug' \subseteq debug \cup {r} /\ debug \subseteq debug'
    BY <1>2 DEF MarshalOne
  <2> QED
    BY <2>1 DEF Kinds
<1>3. CASE SaveProfile(r)
  <2>1. PICK m \in Up : begin(r, "save", "one", {m}, "no") /\ UNCHANGED debug
    BY <1>3 DEF SaveProfile
  <2> QED
    BY <2>1 DEF Kinds, Up
<1>4. CASE writeStatus(r)
  <2>1. begin(r, "status", "gather", Up, "failed") /\ UNCHANGED debug
    BY <1>4 DEF writeStatus
  <2> QED
    BY <2>1 DEF Kinds, Up
<1>5. CASE pprofIndex(r)
  <2>1. begin(r, "index", "gather", Machines, "no") /\ UNCHANGED debug
    BY <1>5 DEF pprofIndex
  <2> QED
    BY <2>1 DEF Kinds
<1>6. CASE String(r)
  <2>1. begin(r, "vars", "gather", Owned, "no") /\ UNCHANGED debug
    BY <1>6 DEF String
  <2> QED
    BY <2>1, DiagnosticsAssumption DEF Kinds
<1> QED
  BY <1>1, <1>2, <1>3, <1>4, <1>5, <1>6

\* One call changes.
LEMMA Becomes ==
    ASSUME TypeOK, NEW r \in Requests, NEW m \in Machines, NEW a \in Asks, becomes(r, m, a)
    PROVE  /\ ask' \in [Requests -> [Machines -> Asks]]
           /\ ask'[r][m] = a
           /\ \A n \in Machines \ {m} : ask'[r][n] = ask[r][n]
           /\ \A q \in Requests \ {r} : ask'[q] = ask[q]
<1>1. ask' = [ask EXCEPT ![r] = [@ EXCEPT ![m] = a]] /\ ask \in [Requests -> [Machines -> Asks]]
  BY DEF becomes, TypeOK, Asks
<1>2. [ask[r] EXCEPT ![m] = a] \in [Machines -> Asks]
  BY <1>1
<1> QED
  BY <1>1, <1>2

\* The calls of a request that begins.
LEMMA Begun ==
    ASSUME TypeOK, NEW r \in Requests, NEW k \in Kinds, NEW to \in {"gather", "one"},
           NEW asked \in SUBSET Machines, NEW rest \in {"no", "failed"}, begin(r, k, to, asked, rest)
    PROVE  /\ ask' \in [Requests -> [Machines -> Asks]] /\ pc' = [pc EXCEPT ![r] = to] /\ pc[r] = "idle"
           /\ \A m \in Machines : ask'[r][m] = IF m \in asked THEN "call" ELSE rest
           /\ \A q \in Requests \ {r} : ask'[q] = ask[q]
           /\ UNCHANGED <<mstate, kind, parts, files, fds, open, serverVars, out, code>>
<1>1. ask' = [ask EXCEPT ![r] = [m \in Machines |-> IF m \in asked THEN "call" ELSE rest]]
      /\ ask \in [Requests -> [Machines -> Asks]]
  BY DEF begin, TypeOK, Asks
<1>2. [m \in Machines |-> IF m \in asked THEN "call" ELSE rest] \in [Machines -> Asks]
  BY DEF Asks
<1>3. ask' \in [Requests -> [Machines -> Asks]]
      /\ (\A m \in Machines : ask'[r][m] = IF m \in asked THEN "call" ELSE rest)
      /\ (\A q \in Requests \ {r} : ask'[q] = ask[q])
  BY <1>1, <1>2
<1> QED
  BY <1>3 DEF begin

-----------------------------------------------------------------------------
(* Types.                                                                  *)

\* What a response changes.
LEMMA Responded ==
    ASSUME TypeOK, NEW r \in Requests, NEW ms, NEW c \in {"ok", "cut", "notfound", "error"}, respond(r, ms, c)
    PROVE  /\ pc' = [pc EXCEPT ![r] = "done"] /\ pc' \in [Requests -> {"idle", "gather", "one", "vars", "emit", "done"}]
           /\ DOMAIN out' = Requests
           /\ code' \in [Requests -> {"none", "ok", "cut", "notfound", "error"}]
BY DEF respond, TypeOK

LEMMA TypeStep ==
    ASSUME TypeOK, [Next]_vars
    PROVE  TypeOK'
<1>a. Asks = {"no", "call", "copy", "have", "sent", "failed"}
  BY DEF Asks
<1>1. ASSUME NEW r \in Requests,
             Marshal(r) \/ MarshalOne(r) \/ SaveProfile(r) \/ writeStatus(r) \/ pprofIndex(r) \/ String(r)
      PROVE  TypeOK'
  <2>1. PICK k \in Kinds \ {"none"}, to \in {"gather", "one"}, asked \in SUBSET Machines, rest \in {"no", "failed"} :
            begin(r, k, to, asked, rest) /\ debug' \subseteq debug \cup {r}
    BY <1>1, BeginStep, SMTT(30)
  <2>2. /\ ask' \in [Requests -> [Machines -> Asks]] /\ pc' = [pc EXCEPT ![r] = to]
        /\ UNCHANGED <<mstate, kind, parts, files, fds, open, serverVars, out, code>>
    BY <2>1, Begun, SMTT(30)
  <2> QED
    BY <2>1, <2>2, <1>a DEF TypeOK, serverVars
<1>2. ASSUME NEW r \in Requests, NEW k, NEW ms, rows(r, k, ms)
      PROVE  TypeOK'
  BY <1>2, Responded DEF rows, TypeOK, callVars, serverVars
<1>3. ASSUME NEW r \in Requests, Profiles(r)
      PROVE  TypeOK'
  <2>1. CASE respond(r, <<>>, "notfound")
    BY <1>3, <2>1, Responded DEF Profiles, TypeOK, callVars, serverVars
  <2>2. CASE pc' = [pc EXCEPT ![r] = "emit"] /\ UNCHANGED <<out, code>>
    BY <1>3, <2>2 DEF Profiles, TypeOK, callVars, serverVars
  <2> QED
    BY <1>3, <2>1, <2>2 DEF Profiles
<1>4. ASSUME NEW r \in Requests, NEW m \in Have(r), becomes(r, m, "sent"),
             UNCHANGED <<mstate, kind, debug, parts, open, serverVars>>,
             \E ms : Close(r, ms),
             \/ DOMAIN out' = Requests /\ UNCHANGED <<pc, code>>
             \/ \E ms : \E c \in {"cut", "error"} : respond(r, ms, c)
      PROVE  TypeOK'
  <2>1. ask' \in [Requests -> [Machines -> Asks]]
    BY <1>4, Becomes DEF Have, Asks
  <2>2. files' \in [Requests -> SUBSET Machines] /\ fds' \in [Requests -> SUBSET Machines]
    BY <1>4, SMTT(30) DEF Close, TypeOK
  <2>3. CASE DOMAIN out' = Requests /\ UNCHANGED <<pc, code>>
    BY <1>4, <2>1, <2>2, <2>3, <1>a DEF TypeOK, serverVars
  <2>4. ASSUME NEW ms, NEW c \in {"cut", "error"}, respond(r, ms, c)
        PROVE  TypeOK'
    BY <1>4, <2>1, <2>2, <2>4, <1>a, Responded, SMTT(30) DEF TypeOK, serverVars
  <2> QED
    BY <1>4, <2>3, <2>4
<1>5. ASSUME NEW r \in Requests, appendProfile(r)
      PROVE  TypeOK'
  <2>1. PICK m \in Have(r) :
          /\ becomes(r, m, "sent")
          /\ \/ Close(r, {m}) /\ out' = [out EXCEPT ![r] = Append(@, m)] /\ UNCHANGED <<pc, code>>
             \/ Close(r, Have(r)) /\ respond(r, out[r], "cut")
    BY <1>5 DEF appendProfile
  <2>2. UNCHANGED <<mstate, kind, debug, parts, open, serverVars>>
    BY <1>5 DEF appendProfile
  <2>3. \E ms : Close(r, ms)
    BY <2>1
  <2>4. \/ DOMAIN out' = Requests /\ UNCHANGED <<pc, code>>
        \/ \E ms : \E c \in {"cut", "error"} : respond(r, ms, c)
    BY <2>1 DEF TypeOK
  <2> QED
    BY <1>4, <2>1, <2>2, <2>3, <2>4
<1>6. ASSUME NEW r \in Requests, parseProfile(r)
      PROVE  TypeOK'
  <2>1. PICK m \in Have(r) :
          /\ becomes(r, m, "sent")
          /\ \/ Close(r, {m}) /\ UNCHANGED <<pc, out, code>>
             \/ Close(r, Have(r)) /\ respond(r, <<>>, "error")
    BY <1>6 DEF parseProfile
  <2>2. UNCHANGED <<mstate, kind, debug, parts, open, serverVars>>
    BY <1>6 DEF parseProfile
  <2>3. \E ms : Close(r, ms)
    BY <2>1
  <2>4. \/ DOMAIN out' = Requests /\ UNCHANGED <<pc, code>>
        \/ \E ms : \E c \in {"cut", "error"} : respond(r, ms, c)
    BY <2>1 DEF TypeOK
  <2> QED
    BY <1>4, <2>1, <2>2, <2>3, <2>4
<1>7. ASSUME NEW r \in Requests, Marshaled(r) \/ MarshaledOne(r) \/ saveExpvars(r) \/ VarsError(r)
      PROVE  TypeOK'
  <2>1. PICK ms : \E c \in {"ok", "cut", "error"} : respond(r, ms, c)
    BY <1>7 DEF Marshaled, MarshaledOne, saveExpvars, VarsError
  <2>2. UNCHANGED <<mstate, kind, debug, callVars, serverVars>>
    BY <1>7 DEF Marshaled, MarshaledOne, saveExpvars, VarsError
  <2> QED
    BY <2>1, <2>2, Responded, SMTT(30) DEF TypeOK, callVars, serverVars
<1>8. ASSUME NEW r \in Requests, NEW m \in Machines, CallFails(r, m) \/ ProfileStats(r, m) \/ Expvars(r, m)
      PROVE  TypeOK'
  <2>1. PICK a \in {"have", "failed"} : becomes(r, m, a)
    BY <1>8 DEF CallFails, ProfileStats, Expvars, lists
  <2>2. UNCHANGED <<mstate, handlerVars, parts, files, fds, open, serverVars>>
    BY <1>8 DEF CallFails, ProfileStats, Expvars, lists
  <2> QED
    BY <2>1, <2>2, <1>a, Becomes DEF TypeOK, handlerVars, serverVars
<1>9. ASSUME NEW r \in Requests, NEW m \in Machines, NEW p \in Parts, allInfo(r, m, p)
      PROVE  TypeOK'
  <2>1. PICK a \in {"have", "call"} : becomes(r, m, a)
    BY <1>9 DEF allInfo
  <2>2. ask' \in [Requests -> [Machines -> Asks]]
    BY <2>1, Becomes DEF Asks
  <2>3. parts' \in [Requests -> [Machines -> SUBSET Parts]]
    BY <1>9, SMTT(30) DEF allInfo, TypeOK
  <2> QED
    BY <1>9, <2>2, <2>3, <1>a DEF allInfo, TypeOK, handlerVars, serverVars
<1>10. ASSUME NEW r \in Requests, NEW m \in Machines, Profile(r, m) \/ CPUProfile(r, m)
       PROVE  TypeOK'
  <2>1. becomes(r, m, "copy") /\ open' = [open EXCEPT ![r] = @ \cup {m}]
    BY <1>10 DEF Profile, CPUProfile
  <2>2. PICK s \in {"begun", "writing"} : stream' = [stream EXCEPT ![r][m] = s]
    BY <1>10 DEF Profile, CPUProfile
  <2>3. stream' \in [Requests -> [Machines -> {"none", "begun", "writing", "eof", "error"}]]
    BY <2>2 DEF TypeOK
  <2>4. slot' \in [Machines -> Requests \cup {NoOne}]
    BY <1>10 DEF Profile, CPUProfile, TypeOK
  <2>5. ask' \in [Requests -> [Machines -> Asks]] /\ open' \in [Requests -> SUBSET Machines]
    BY <2>1, Becomes, SMTT(30) DEF TypeOK, Asks
  <2>6. UNCHANGED <<mstate, handlerVars, parts, files, fds>>
    BY <1>10 DEF Profile, CPUProfile
  <2> QED
    BY <2>3, <2>4, <2>5, <2>6, <1>a DEF TypeOK, handlerVars
<1>11. ASSUME NEW r \in Requests, NEW m \in Machines, New(r, m) \/ CopyOne(r, m)
       PROVE  TypeOK'
  <2>1. PICK a \in {"have", "sent", "failed"} : becomes(r, m, a)
    BY <1>11 DEF New, CopyOne
  <2>2. ask' \in [Requests -> [Machines -> Asks]]
    BY <2>1, Becomes DEF Asks
  <2>3. open' \in [Requests -> SUBSET Machines]
    <3>1. open' = [open EXCEPT ![r] = @ \ {m}]
      BY <1>11 DEF New, CopyOne, closed
    <3> QED
      BY <3>1 DEF TypeOK
  <2>4. files' \in [Requests -> SUBSET Machines] /\ fds' \in [Requests -> SUBSET Machines]
    <3>1. /\ UNCHANGED files \/ files' = [files EXCEPT ![r] = @ \cup {m}]
          /\ UNCHANGED fds \/ fds' = [fds EXCEPT ![r] = @ \cup {m}]
      BY <1>11 DEF New, CopyOne, buffered
    <3>2. /\ files \in [Requests -> SUBSET Machines] /\ files[r] \cup {m} \in SUBSET Machines
          /\ fds \in [Requests -> SUBSET Machines] /\ fds[r] \cup {m} \in SUBSET Machines
      BY DEF TypeOK
    <3> QED
      BY <3>1, <3>2
  <2>5. UNCHANGED <<mstate, handlerVars, parts, serverVars>>
    BY <1>11 DEF New, CopyOne
  <2> QED
    BY <2>2, <2>3, <2>4, <2>5, <1>a DEF TypeOK, handlerVars, serverVars
<1>12. ASSUME NEW r \in Requests, NEW m \in Machines, StreamEnds(r, m)
       PROVE  TypeOK'
  <2>1. PICK s \in {"eof", "error"} : stream' = [stream EXCEPT ![r][m] = s]
    BY <1>12 DEF StreamEnds
  <2>2. stream' \in [Requests -> [Machines -> {"none", "begun", "writing", "eof", "error"}]]
    BY <2>1 DEF TypeOK
  <2>3. slot' \in [Machines -> Requests \cup {NoOne}]
    BY <1>12 DEF StreamEnds, TypeOK
  <2> QED
    BY <1>12, <2>2, <2>3 DEF StreamEnds, TypeOK, handlerVars, callVars
<1>13. ASSUME NEW m \in Machines, MachineStep(m)
       PROVE  TypeOK'
  <2>0. PICK s \in {"running", "stopped"} : mstate' = [mstate EXCEPT ![m] = s]
    BY <1>13 DEF MachineStep
  <2>a. mstate \in [Machines -> {"starting", "running", "stopped"}]
    BY DEF TypeOK
  <2>1. mstate' \in [Machines -> {"starting", "running", "stopped"}]
    BY <2>0, <2>a, SMTT(30)
  <2> QED
    BY <1>13, <2>1 DEF MachineStep, TypeOK, handlerVars, callVars, serverVars
<1>14. CASE UNCHANGED vars
  BY <1>14 DEF TypeOK, vars, handlerVars, callVars, serverVars
<1>15. ASSUME NEW r \in Requests, StatusRows(r) \/ IndexRows(r) \/ VarsRows(r)
       PROVE  TypeOK'
  BY <1>15, <1>2 DEF StatusRows, IndexRows, VarsRows
<1>16. ASSUME NEW r \in Requests, saveProfile(r)
       PROVE  TypeOK'
  BY <1>16 DEF saveProfile, TypeOK, callVars, serverVars
<1>17. ASSUME NEW r \in Requests, NEW m \in Machines, StartCPUProfile(r, m)
       PROVE  TypeOK'
  <2>1. PICK s \in {"writing", "error"} : stream' = [stream EXCEPT ![r][m] = s]
    BY <1>17 DEF StartCPUProfile
  <2>2. stream' \in [Requests -> [Machines -> {"none", "begun", "writing", "eof", "error"}]]
    BY <2>1 DEF TypeOK
  <2>3. slot' \in [Machines -> Requests \cup {NoOne}]
    <3>1. slot' = [slot EXCEPT ![m] = IF @ = NoOne THEN r ELSE @]
      BY <1>17 DEF StartCPUProfile
    <3>2. slot \in [Machines -> Requests \cup {NoOne}]
      BY DEF TypeOK
    <3> QED
      BY <3>1, <3>2
  <2> QED
    BY <1>17, <2>2, <2>3 DEF StartCPUProfile, TypeOK, handlerVars, callVars
<1> QED
  BY <1>1, <1>3, <1>5, <1>6, <1>7, <1>8, <1>9, <1>10, <1>11, <1>12, <1>13, <1>14, <1>15, <1>16, <1>17,
     NextCases

-----------------------------------------------------------------------------
(* The calls and the files of each request.                                *)

\* What a step leaves alone of the other requests keeps their invariants.
LEMMA Others ==
    ASSUME NEW r \in Requests, UNCHANGED kind,
           \A q \in Requests : AskInv(q) /\ FileInv(q),
           \A q \in Requests \ {r} :
               pc'[q] = pc[q] /\ ask'[q] = ask[q] /\ files'[q] = files[q] /\ open'[q] = open[q],
           AskInv(r)', FileInv(r)'
    PROVE  \A q \in Requests : AskInv(q)' /\ FileInv(q)'
<1>1. ASSUME NEW q \in Requests \ {r}
      PROVE  AskInv(q)' /\ FileInv(q)'
  <2>1. AskInv(q) /\ FileInv(q)
    OBVIOUS
  <2>2. pc'[q] = pc[q] /\ ask'[q] = ask[q] /\ files'[q] = files[q] /\ open'[q] = open[q] /\ kind'[q] = kind[q]
    OBVIOUS
  <2>3. AskInv(q)'
    BY <2>1, <2>2, SMTT(30) DEF AskInv
  <2>4. FileInv(q)'
    BY <2>1, <2>2, SMTT(30) DEF FileInv, Have
  <2> QED
    BY <2>3, <2>4
<1> QED
  BY <1>1

\* A request that begins has no file and no body, and has asked.
LEMMA BeginKeeps ==
    ASSUME TypeOK, \A q \in Requests : AskInv(q) /\ FileInv(q), NEW r \in Requests,
           Marshal(r) \/ MarshalOne(r) \/ SaveProfile(r) \/ writeStatus(r) \/ pprofIndex(r) \/ String(r)
    PROVE  \A q \in Requests : AskInv(q)' /\ FileInv(q)'
<1>1. PICK k \in Kinds \ {"none"}, to \in {"gather", "one"}, asked \in SUBSET Machines, rest \in {"no", "failed"} :
          /\ begin(r, k, to, asked, rest)
          /\ to = "one" => k \in {"cpu", "heap", "save"} /\ rest = "no" /\ \E m \in Machines : asked = {m}
          /\ to = "gather" => k # "save"
  BY BeginStep, SMTT(30)
<1>2. /\ pc' = [pc EXCEPT ![r] = to] /\ pc[r] = "idle" /\ UNCHANGED <<kind, files, open>>
      /\ \A m \in Machines : ask'[r][m] = IF m \in asked THEN "call" ELSE rest
      /\ \A q \in Requests \ {r} : ask'[q] = ask[q]
  BY <1>1, Begun, SMTT(30)
<1>3. pc'[r] = to /\ kind'[r] = k /\ \A q \in Requests \ {r} : pc'[q] = pc[q]
  BY <1>1, <1>2, SMTT(30) DEF TypeOK, begin
<1>4. AskInv(r)'
  <2>1. \A m \in Machines : ask'[r][m] \in {"call", "no", "failed"}
    BY <1>2
  <2>2. CASE to = "gather"
    BY <1>1, <1>3, <2>1, <2>2, SMTT(30) DEF AskInv
  <2>3. CASE to = "one"
    <3>1. PICK m \in Machines : asked = {m}
      BY <1>1, <2>3
    <3>2. \A n \in Machines : ask'[r][n] # "no" => n = m
      BY <1>1, <1>2, <2>3, <3>1
    <3> QED
      BY <1>1, <1>3, <2>1, <2>3, <3>2, SMTT(30) DEF AskInv
  <2> QED
    BY <2>2, <2>3
<1>5. FileInv(r)'
  <2>1. open[r] = {} /\ files[r] = {}
    <3>1. AskInv(r) /\ FileInv(r)
      OBVIOUS
    <3>2. \A m \in Machines : ask[r][m] = "no"
      BY <1>2, <3>1 DEF AskInv
    <3> QED
      BY <3>1, <3>2, SMTT(30) DEF FileInv, Have
  <2>2. \A m \in Machines : ask'[r][m] # "copy" /\ ask'[r][m] # "have"
    BY <1>2
  <2> QED
    BY <1>2, <2>1, <2>2, SMTT(30) DEF FileInv, Have
<1> QED
  BY <1>2, <1>3, <1>4, <1>5, Others

\* A request is done only when no call is left and its files are gone.
LEMMA DoneKeeps ==
    ASSUME TypeOK, \A q \in Requests : AskInv(q) /\ FileInv(q), NEW r \in Requests,
           pc' = [pc EXCEPT ![r] = "done"], UNCHANGED <<kind, callVars>>,
           \A m \in Machines : ask[r][m] \notin {"call", "copy"},
           files[r] = {}
    PROVE  \A q \in Requests : AskInv(q)' /\ FileInv(q)'
<1>1. pc'[r] = "done" /\ \A q \in Requests \ {r} : pc'[q] = pc[q]
  BY DEF TypeOK
<1>2. AskInv(r)'
  BY <1>1 DEF AskInv, callVars
<1>3. FileInv(r)'
  BY <1>1 DEF FileInv, callVars
<1> QED
  BY <1>1, <1>2, <1>3, Others DEF callVars

\* A profile is written or parsed and its file removed, or all are.
LEMMA EmitKeeps ==
    ASSUME TypeOK, \A q \in Requests : AskInv(q) /\ FileInv(q), NEW r \in Requests, NEW m \in Have(r),
           pc[r] = "emit", becomes(r, m, "sent"), UNCHANGED <<kind, open>>,
           \/ Close(r, {m}) /\ UNCHANGED pc
           \/ Close(r, Have(r)) /\ pc' = [pc EXCEPT ![r] = "done"]
    PROVE  \A q \in Requests : AskInv(q)' /\ FileInv(q)'
<1>1. m \in Machines /\ ask[r][m] = "have"
  BY DEF Have
<1>2. /\ ask'[r][m] = "sent"
      /\ \A n \in Machines \ {m} : ask'[r][n] = ask[r][n]
      /\ \A q \in Requests \ {r} : ask'[q] = ask[q]
  BY <1>1, Becomes DEF Asks
<1>3. pc'[r] \in {"emit", "done"} /\ \A q \in Requests \ {r} : pc'[q] = pc[q] /\ files'[q] = files[q]
  BY DEF TypeOK, Close
<1>4. kind[r] \in {"cpu", "heap"} /\ files[r] = Have(r) /\ \A n \in Machines : ask[r][n] \notin {"call", "copy"}
  BY DEF AskInv, FileInv
<1>5. AskInv(r)'
  BY <1>1, <1>2, <1>3, <1>4, SMTT(30) DEF AskInv
<1>6. FileInv(r)'
  <2>1. open'[r] = {n \in Machines : ask'[r][n] = "copy"}
    BY <1>1, <1>2, <1>4, SMTT(30) DEF FileInv
  <2>2. Have(r)' = Have(r) \ {m}
    BY <1>1, <1>2 DEF Have
  <2>3. CASE Close(r, {m}) /\ UNCHANGED pc
    <3>1. files'[r] = files[r] \ {m}
      BY <2>3 DEF Close, TypeOK
    <3> QED
      BY <1>4, <2>1, <2>2, <2>3, <3>1, SMTT(30) DEF FileInv
  <2>4. CASE Close(r, Have(r)) /\ pc' = [pc EXCEPT ![r] = "done"]
    <3>1. files'[r] = {} /\ pc'[r] = "done"
      BY <1>4, <2>4, SMTT(30) DEF Close, TypeOK
    <3> QED
      BY <2>1, <3>1 DEF FileInv
  <2> QED
    BY <2>3, <2>4
<1> QED
  BY <1>2, <1>3, <1>5, <1>6, Others

\* A call of r moves: bodies are open while copied, and a profile has its file.
LEMMA CallKeeps ==
    ASSUME TypeOK, \A q \in Requests : AskInv(q) /\ FileInv(q), NEW r \in Requests, NEW m \in Machines,
           NEW a \in {"call", "copy", "have", "sent", "failed"}, becomes(r, m, a), UNCHANGED <<kind, pc>>,
           ask[r][m] \in {"call", "copy"},
           a = "copy" => kind[r] \in {"cpu", "heap", "save"},
           a = "have" => pc[r] # "one",
           open' \in [Requests -> SUBSET Machines], files' \in [Requests -> SUBSET Machines],
           open'[r] = IF a = "copy" THEN open[r] \cup {m} ELSE open[r] \ {m},
           files'[r] = IF a = "have" /\ kind[r] \in {"cpu", "heap"} THEN files[r] \cup {m} ELSE files[r],
           \A q \in Requests \ {r} : files'[q] = files[q] /\ open'[q] = open[q]
    PROVE  \A q \in Requests : AskInv(q)' /\ FileInv(q)'
<1>1. /\ ask'[r][m] = a
      /\ \A n \in Machines \ {m} : ask'[r][n] = ask[r][n]
      /\ \A q \in Requests \ {r} : ask'[q] = ask[q]
  BY Becomes, SMTT(30) DEF Asks
<1>2. pc[r] \in {"gather", "one"}
  <2>1. pc[r] \in {"idle", "gather", "one", "vars", "emit", "done"}
    BY DEF TypeOK
  <2>2. AskInv(r)
    OBVIOUS
  <2>3. pc[r] # "idle" /\ pc[r] \notin {"vars", "emit", "done"}
    BY <2>2 DEF AskInv
  <2> QED
    BY <2>1, <2>3
<1>3. AskInv(r)'
  <2>1. CASE pc[r] = "gather"
    BY <1>1, <2>1, SMTT(30) DEF AskInv
  <2>2. CASE pc[r] = "one"
    <3>1. \A n \in Machines : ask'[r][n] # "have"
      BY <1>1, <2>2, SMTT(30) DEF AskInv
    <3>2. \A n \in Machines : ask'[r][n] # "no" => n = m
      BY <1>1, <2>2, SMTT(30) DEF AskInv
    <3> QED
      BY <1>1, <2>2, <3>1, <3>2, SMTT(30) DEF AskInv
  <2> QED
    BY <1>2, <2>1, <2>2
<1>4. FileInv(r)'
  <2>1. open'[r] = {n \in Machines : ask'[r][n] = "copy"}
    BY <1>1, SMTT(30) DEF FileInv
  <2>2. Have(r)' = IF a = "have" THEN Have(r) \cup {m} ELSE Have(r)
    BY <1>1, SMTT(30) DEF Have
  <2>3. CASE kind[r] \in {"cpu", "heap"}
    <3>1. files[r] = Have(r)
      BY <1>2, <2>3 DEF FileInv
    <3> QED
      BY <1>2, <2>1, <2>2, <2>3, <3>1, SMTT(30) DEF FileInv
  <2>4. CASE kind[r] \notin {"cpu", "heap"}
    BY <2>1, <2>4, SMTT(30) DEF FileInv
  <2> QED
    BY <2>3, <2>4
<1> QED
  BY <1>1, <1>3, <1>4, Others

LEMMA CallsStep ==
    ASSUME TypeOK, \A q \in Requests : AskInv(q) /\ FileInv(q), [Next]_vars
    PROVE  \A q \in Requests : AskInv(q)' /\ FileInv(q)'
<1>t. TypeOK'
  BY TypeStep
<1>a. /\ open' \in [Requests -> SUBSET Machines] /\ files' \in [Requests -> SUBSET Machines]
      /\ open \in [Requests -> SUBSET Machines] /\ files \in [Requests -> SUBSET Machines]
  BY <1>t, SMTT(30) DEF TypeOK
<1>1. ASSUME NEW r \in Requests,
             Marshal(r) \/ MarshalOne(r) \/ SaveProfile(r) \/ writeStatus(r) \/ pprofIndex(r) \/ String(r)
      PROVE  \A q \in Requests : AskInv(q)' /\ FileInv(q)'
  BY <1>1, BeginKeeps, SMTT(30)
<1>2. ASSUME NEW r \in Requests, StatusRows(r) \/ IndexRows(r) \/ VarsRows(r) \/ VarsError(r)
      PROVE  \A q \in Requests : AskInv(q)' /\ FileInv(q)'
  <2>1. Waited(r) /\ kind[r] \in {"status", "index", "vars"} /\ pc' = [pc EXCEPT ![r] = "done"]
        /\ UNCHANGED <<kind, callVars>>
    BY <1>2 DEF StatusRows, IndexRows, VarsRows, VarsError, rows, respond
  <2>2. files[r] = {} /\ \A m \in Machines : ask[r][m] \notin {"call", "copy"}
    BY <2>1 DEF FileInv, Waited
  <2> QED
    BY <2>1, <2>2, DoneKeeps
<1>3. ASSUME NEW r \in Requests, Profiles(r)
      PROVE  \A q \in Requests : AskInv(q)' /\ FileInv(q)'
  <2>1. /\ pc[r] = "gather" /\ kind[r] \in {"cpu", "heap"} /\ UNCHANGED <<kind, callVars>>
        /\ \A m \in Machines : ask[r][m] \notin {"call", "copy"}
    BY <1>3 DEF Profiles, Waited
  <2>2. files[r] = Have(r)
    BY <2>1 DEF FileInv
  <2>3. CASE Have(r) = {}
    BY <1>3, <2>1, <2>2, <2>3, DoneKeeps, SMTT(30) DEF Profiles, respond
  <2>4. CASE Have(r) # {}
    <3>1. pc'[r] = "emit" /\ \A q \in Requests \ {r} : pc'[q] = pc[q]
      BY <1>3, <2>4, SMTT(30) DEF Profiles, TypeOK
    <3>2. AskInv(r)'
      BY <2>1, <3>1 DEF AskInv, callVars
    <3>3. FileInv(r)'
      BY <2>1, <2>2, <3>1 DEF FileInv, Have, callVars
    <3> QED
      BY <2>1, <3>1, <3>2, <3>3, Others, SMTT(30) DEF callVars
  <2> QED
    BY <2>3, <2>4
<1>4. ASSUME NEW r \in Requests, appendProfile(r) \/ parseProfile(r)
      PROVE  \A q \in Requests : AskInv(q)' /\ FileInv(q)'
  <2>1. pc[r] = "emit" /\ UNCHANGED <<kind, open>>
    BY <1>4, SMTT(30) DEF appendProfile, parseProfile
  <2>2. PICK m \in Have(r) :
          /\ becomes(r, m, "sent")
          /\ \/ Close(r, {m}) /\ UNCHANGED pc
             \/ Close(r, Have(r)) /\ pc' = [pc EXCEPT ![r] = "done"]
    BY <1>4 DEF appendProfile, parseProfile, respond
  <2> QED
    BY <2>1, <2>2, EmitKeeps, SMTT(30)
<1>5. ASSUME NEW r \in Requests, Marshaled(r)
      PROVE  \A q \in Requests : AskInv(q)' /\ FileInv(q)'
  <2>1. pc[r] = "emit" /\ Have(r) = {} /\ pc' = [pc EXCEPT ![r] = "done"] /\ UNCHANGED <<kind, callVars>>
    BY <1>5, SMTT(30) DEF Marshaled, respond
  <2>2. files[r] = {} /\ \A m \in Machines : ask[r][m] \notin {"call", "copy"}
    BY <2>1, SMTT(30) DEF FileInv, AskInv
  <2> QED
    BY <2>1, <2>2, DoneKeeps
<1>6. ASSUME NEW r \in Requests, MarshaledOne(r) \/ saveExpvars(r)
      PROVE  \A q \in Requests : AskInv(q)' /\ FileInv(q)'
  <2>1. pc[r] \in {"one", "vars"} /\ pc' = [pc EXCEPT ![r] = "done"] /\ UNCHANGED <<kind, callVars>>
    BY <1>6, SMTT(30) DEF MarshaledOne, saveExpvars, respond
  <2>2. Have(r) = {} /\ files[r] = {}
    <3>1. AskInv(r) /\ FileInv(r)
      OBVIOUS
    <3>2. Have(r) = {}
      BY <2>1, <3>1, SMTT(30) DEF AskInv, Have
    <3> QED
      BY <3>1, <3>2, SMTT(30) DEF FileInv
  <2>3. \A m \in Machines : ask[r][m] \notin {"call", "copy"}
    <3>1. CASE MarshaledOne(r)
      <4>1. PICK n \in Machines : ask[r][n] \in {"sent", "failed"} /\ pc[r] = "one"
        BY <3>1 DEF MarshaledOne, Sent
      <4> QED
        BY <4>1, SMTT(30) DEF AskInv
    <3>2. CASE saveExpvars(r)
      BY <3>2 DEF saveExpvars, AskInv
    <3> QED
      BY <1>6, <3>1, <3>2
  <2> QED
    BY <2>1, <2>2, <2>3, DoneKeeps
<1>7. ASSUME NEW r \in Requests, NEW m \in Machines,
             CallFails(r, m) \/ ProfileStats(r, m) \/ Expvars(r, m) \/ (\E p \in Parts : allInfo(r, m, p))
      PROVE  \A q \in Requests : AskInv(q)' /\ FileInv(q)'
  <2>1. ask[r][m] = "call" /\ UNCHANGED <<kind, pc, files, open>>
    BY <1>7 DEF CallFails, ProfileStats, Expvars, lists, allInfo, handlerVars
  <2>2. PICK a \in {"call", "have", "failed"} :
            becomes(r, m, a) /\ (a = "have" => kind[r] \in {"status", "index", "vars"})
    <3>1. CASE \E p \in Parts : allInfo(r, m, p)
      BY <3>1 DEF allInfo
    <3>2. CASE CallFails(r, m) \/ ProfileStats(r, m) \/ Expvars(r, m)
      BY <3>2 DEF CallFails, ProfileStats, Expvars, lists
    <3> QED
      BY <1>7, <3>1, <3>2
  <2>3. m \notin open[r]
    BY <2>1 DEF FileInv
  <2>4. a = "have" => pc[r] # "one"
    BY <2>2, SMTT(30) DEF AskInv
  <2>5. open'[r] = open[r] \ {m}
    BY <2>1, <2>3
  <2> QED
    BY <1>a, <2>1, <2>2, <2>4, <2>5, CallKeeps
<1>8. ASSUME NEW r \in Requests, NEW m \in Machines, Profile(r, m) \/ CPUProfile(r, m)
      PROVE  \A q \in Requests : AskInv(q)' /\ FileInv(q)'
  <2>1. /\ ask[r][m] = "call" /\ kind[r] \in {"cpu", "heap", "save"} /\ UNCHANGED <<kind, pc, files>>
        /\ becomes(r, m, "copy") /\ open' = [open EXCEPT ![r] = @ \cup {m}]
    BY <1>8, SMTT(30) DEF Profile, CPUProfile, handlerVars
  <2>2. open'[r] = open[r] \cup {m} /\ \A q \in Requests \ {r} : open'[q] = open[q]
    BY <1>a, <2>1, SMTT(30)
  <2> QED
    BY <1>a, <2>1, <2>2, CallKeeps, SMTT(30)
<1>9. ASSUME NEW r \in Requests, NEW m \in Machines, New(r, m)
      PROVE  \A q \in Requests : AskInv(q)' /\ FileInv(q)'
  <2>1. pc[r] = "gather" /\ ask[r][m] = "copy" /\ UNCHANGED <<kind, pc>>
    BY <1>9, SMTT(30) DEF New, handlerVars
  <2>2. open'[r] = open[r] \ {m} /\ \A q \in Requests \ {r} : open'[q] = open[q]
    BY <1>9, <1>a, SMTT(30) DEF New, closed
  <2>3. kind[r] \in {"cpu", "heap"}
    BY <2>1, SMTT(30) DEF AskInv
  <2>4. CASE becomes(r, m, "have") /\ files' = [files EXCEPT ![r] = @ \cup {m}]
    <3>1. files'[r] = files[r] \cup {m} /\ \A q \in Requests \ {r} : files'[q] = files[q]
      BY <1>a, <2>4, SMTT(30)
    <3> QED
      BY <1>a, <2>1, <2>2, <2>3, <2>4, <3>1, CallKeeps
  <2>5. CASE becomes(r, m, "failed") /\ UNCHANGED files
    BY <1>a, <2>1, <2>2, <2>3, <2>5, CallKeeps
  <2> QED
    BY <1>9, <2>4, <2>5 DEF New, buffered
<1>10. ASSUME NEW r \in Requests, NEW m \in Machines, CopyOne(r, m)
       PROVE  \A q \in Requests : AskInv(q)' /\ FileInv(q)'
  <2>1. ask[r][m] = "copy" /\ UNCHANGED <<kind, pc, files>>
    BY <1>10 DEF CopyOne, handlerVars
  <2>2. open'[r] = open[r] \ {m} /\ \A q \in Requests \ {r} : open'[q] = open[q]
    BY <1>10, <1>a, SMTT(30) DEF CopyOne, closed
  <2>3. PICK a \in {"sent", "failed"} : becomes(r, m, a)
    BY <1>10, SMTT(30) DEF CopyOne
  <2> QED
    BY <1>a, <2>1, <2>2, <2>3, CallKeeps, SMTT(30)
<1>11. CASE UNCHANGED <<handlerVars, callVars>>
  <2>1. UNCHANGED <<pc, kind, ask, files, open>>
    BY <1>11, SMTT(30) DEF handlerVars, callVars
  <2> SUFFICES ASSUME NEW q \in Requests
               PROVE  AskInv(q)' /\ FileInv(q)'
    OBVIOUS
  <2>2. AskInv(q) /\ FileInv(q)
    OBVIOUS
  <2>3. AskInv(q)'
    BY <2>1, <2>2, SMTT(30) DEF AskInv
  <2>4. FileInv(q)'
    BY <2>1, <2>2 DEF FileInv, Have
  <2> QED
    BY <2>3, <2>4, SMTT(30)
<1>12. ASSUME NEW r \in Requests, NEW m \in Machines, StartCPUProfile(r, m) \/ StreamEnds(r, m)
       PROVE  \A q \in Requests : AskInv(q)' /\ FileInv(q)'
  BY <1>11, <1>12 DEF StartCPUProfile, StreamEnds
<1>13. ASSUME NEW m \in Machines, MachineStep(m)
       PROVE  \A q \in Requests : AskInv(q)' /\ FileInv(q)'
  BY <1>11, <1>13, SMTT(30) DEF MachineStep
<1>14. CASE UNCHANGED vars
  BY <1>11, <1>14, SMTT(30) DEF vars
<1>15. ASSUME NEW r \in Requests, saveProfile(r)
       PROVE  \A q \in Requests : AskInv(q)' /\ FileInv(q)'
  <2>1. /\ pc[r] = "one" /\ kind[r] = "save" /\ UNCHANGED <<kind, callVars>>
        /\ \A m \in Machines : ask[r][m] \in {"no", "sent", "failed"}
    BY <1>15 DEF saveProfile
  <2>2. pc'[r] = "vars" /\ \A q \in Requests \ {r} : pc'[q] = pc[q]
    BY <1>15 DEF saveProfile, TypeOK
  <2>3. AskInv(r)'
    BY <2>1, <2>2, SMTT(30) DEF AskInv, callVars
  <2>4. FileInv(r)'
    BY <2>1, <2>2, SMTT(30) DEF FileInv, callVars
  <2> QED
    BY <2>1, <2>2, <2>3, <2>4, Others DEF callVars
<1> QED
  BY <1>1, <1>2, <1>3, <1>4, <1>5, <1>6, <1>7, <1>8, <1>9, <1>10, <1>12, <1>13, <1>14, <1>15, NextCases,
     SMTT(30)

-----------------------------------------------------------------------------
(* The profiler.                                                           *)

LEMMA ProfilerStep ==
    ASSUME TypeOK, OneProfiler, [Next]_vars
    PROVE  OneProfiler'
<1>t. /\ stream \in [Requests -> [Machines -> {"none", "begun", "writing", "eof", "error"}]]
      /\ slot \in [Machines -> Requests \cup {NoOne}] /\ NoOne \notin Requests
  BY DiagnosticsAssumption, SMTT(30) DEF TypeOK
<1>1. CASE UNCHANGED <<kind, stream, slot>>
  BY <1>1, SMTT(30) DEF OneProfiler
<1>2. ASSUME NEW r \in Requests, NEW m \in Machines, Profile(r, m) \/ CPUProfile(r, m)
      PROVE  OneProfiler'
  BY <1>t, <1>2, SMTT(30) DEF Profile, CPUProfile, OneProfiler, handlerVars
<1>3. ASSUME NEW r \in Requests, NEW m \in Machines, StartCPUProfile(r, m)
      PROVE  OneProfiler'
  <2>1. CASE slot[m] = NoOne
    <3>1. /\ stream' = [stream EXCEPT ![r][m] = "writing"] /\ slot' = [slot EXCEPT ![m] = r]
          /\ UNCHANGED kind
      BY <1>3, <1>t, <2>1 DEF StartCPUProfile, handlerVars
    <3>2. \A q \in Requests : kind[q] = "cpu" => stream[q][m] # "writing"
      BY <1>t, <2>1 DEF OneProfiler
    <3> QED
      BY <1>t, <3>1, <3>2, SMTT(30) DEF OneProfiler
  <2>2. CASE slot[m] # NoOne
    <3>1. stream' = [stream EXCEPT ![r][m] = "error"] /\ slot' = slot /\ UNCHANGED kind
      BY <1>3, <1>t, <2>2 DEF StartCPUProfile, handlerVars
    <3> QED
      BY <1>t, <3>1, SMTT(30) DEF OneProfiler
  <2> QED
    BY <2>1, <2>2
<1>4. ASSUME NEW r \in Requests, NEW m \in Machines, StreamEnds(r, m)
      PROVE  OneProfiler'
  <2>1. PICK s \in {"eof", "error"} : stream' = [stream EXCEPT ![r][m] = s]
    BY <1>4 DEF StreamEnds
  <2>2. UNCHANGED kind /\ stream[r][m] = "writing"
    BY <1>4 DEF StreamEnds, handlerVars
  <2>3. CASE kind[r] = "cpu"
    <3>1. slot' = [slot EXCEPT ![m] = NoOne] /\ slot[m] = r
      BY <1>4, <2>2, <2>3 DEF StreamEnds, OneProfiler
    <3> QED
      BY <1>t, <2>1, <2>2, <3>1, SMTT(30) DEF OneProfiler
  <2>4. CASE kind[r] # "cpu"
    BY <1>4, <1>t, <2>1, <2>2, <2>4 DEF StreamEnds, OneProfiler
  <2> QED
    BY <2>3, <2>4
<1>5. ASSUME NEW r \in Requests,
             Marshal(r) \/ MarshalOne(r) \/ SaveProfile(r) \/ writeStatus(r) \/ pprofIndex(r) \/ String(r)
      PROVE  OneProfiler'
  BY <1>1, <1>5, SMTT(30) DEF Marshal, MarshalOne, SaveProfile, writeStatus, pprofIndex, String, begin, serverVars
<1>6. ASSUME NEW r \in Requests,
             \/ StatusRows(r) \/ IndexRows(r) \/ VarsRows(r) \/ VarsError(r) \/ Profiles(r) \/ appendProfile(r)
             \/ parseProfile(r) \/ Marshaled(r) \/ MarshaledOne(r) \/ saveProfile(r) \/ saveExpvars(r)
      PROVE  OneProfiler'
  <2>1. UNCHANGED <<kind, serverVars>>
    BY <1>6, SMTT(30) DEF StatusRows, IndexRows, VarsRows, rows, Profiles, appendProfile, parseProfile, Marshaled,
                MarshaledOne, saveProfile, saveExpvars, VarsError
  <2> QED
    BY <1>1, <2>1 DEF serverVars
<1>7. ASSUME NEW r \in Requests, NEW m \in Machines,
             \/ CallFails(r, m) \/ (\E p \in Parts : allInfo(r, m, p)) \/ ProfileStats(r, m)
             \/ Expvars(r, m) \/ New(r, m) \/ CopyOne(r, m)
      PROVE  OneProfiler'
  <2>1. UNCHANGED <<handlerVars, serverVars>>
    BY <1>7 DEF CallFails, allInfo, ProfileStats, Expvars, lists, New, CopyOne
  <2> QED
    BY <1>1, <2>1, SMTT(30) DEF handlerVars, serverVars
<1>8. ASSUME NEW m \in Machines, MachineStep(m)
      PROVE  OneProfiler'
  BY <1>1, <1>8, SMTT(30) DEF MachineStep, handlerVars, serverVars
<1>9. CASE UNCHANGED vars
  BY <1>1, <1>9, SMTT(30) DEF vars, handlerVars, serverVars
<1> QED
  BY <1>2, <1>3, <1>4, <1>5, <1>6, <1>7, <1>8, <1>9, NextCases, SMTT(30)

-----------------------------------------------------------------------------
LEMMA InitOK ==
    ASSUME Init
    PROVE  DiagnosticsInv
<1>1. kind \in [Requests -> Kinds]
  BY DiagnosticsAssumption, SMTT(30) DEF Init
<1>2. TypeOK
  BY <1>1, SMTT(30) DEF Init, TypeOK
<1>3. OneProfiler
  BY DEF Init, OneProfiler
<1>4. \A r \in Requests : AskInv(r) /\ FileInv(r)
  BY SMTT(30) DEF Init, AskInv, FileInv, Have
<1> QED
  BY <1>2, <1>3, <1>4, SMTT(30) DEF DiagnosticsInv

LEMMA InvHolds == Spec => []DiagnosticsInv
<1>1. Init => DiagnosticsInv
  BY InitOK
<1>2. DiagnosticsInv /\ [Next]_vars => DiagnosticsInv'
  <2> SUFFICES ASSUME DiagnosticsInv, [Next]_vars
               PROVE  DiagnosticsInv'
    OBVIOUS
  <2>1. TypeOK'
    BY TypeStep DEF DiagnosticsInv
  <2>2. OneProfiler'
    BY ProfilerStep, SMTT(30) DEF DiagnosticsInv
  <2>3. \A r \in Requests : AskInv(r)' /\ FileInv(r)'
    BY CallsStep, SMTT(30) DEF DiagnosticsInv
  <2> QED
    BY <2>1, <2>2, <2>3, SMTT(30) DEF DiagnosticsInv
<1> QED
  BY <1>1, <1>2, PTL DEF Spec

\* The variables of Diagnostics keep their types through every call and handler.
THEOREM TypeCorrect == Spec => []TypeOK
<1>1. DiagnosticsInv => TypeOK
  BY DEF DiagnosticsInv
<1> QED
  BY <1>1, InvHolds, PTL

\* Requests for CPU profiles do not end each other's, since Supervisor.CPUProfile
\* writes, and stops the profiler, only if StartCPUProfile succeeded.
THEOREM ProfilerIsShared == Spec => []OneProfiler
<1>1. DiagnosticsInv => OneProfiler
  BY SMTT(30) DEF DiagnosticsInv
<1> QED
  BY <1>1, InvHolds, PTL

\* A temporary file has a descriptor, and a descriptor a file or a failed copy.
FdInv(r) ==
    /\ files[r] \subseteq fds[r]
    /\ \A m \in fds[r] : m \in files[r] \/ ask[r][m] = "failed"

\* FdInv is inductive.
LEMMA FdStep ==
    ASSUME DiagnosticsInv, \A q \in Requests : FdInv(q), [Next]_vars
    PROVE  \A q \in Requests : FdInv(q)'
<1>0. TypeOK /\ \A q \in Requests : AskInv(q) /\ FileInv(q)
  BY DEF DiagnosticsInv
<1>t. files \in [Requests -> SUBSET Machines] /\ fds \in [Requests -> SUBSET Machines]
  BY <1>0, SMTT(30) DEF TypeOK
<1>1. CASE UNCHANGED <<ask, files, fds>>
  BY <1>1 DEF FdInv
<1>2. ASSUME NEW r \in Requests, NEW m \in Machines, NEW a \in Asks, becomes(r, m, a), ask[r][m] # "failed",
             UNCHANGED <<files, fds>>
      PROVE  \A q \in Requests : FdInv(q)'
  <2>1. \A q \in Requests, n \in Machines : ask[q][n] = "failed" => ask'[q][n] = "failed"
    BY <1>0, <1>2, Becomes, SMTT(30)
  <2> QED
    BY <1>2, <1>t, <2>1, SMTT(30) DEF FdInv
<1>3. ASSUME NEW r \in Requests,
             Marshal(r) \/ MarshalOne(r) \/ SaveProfile(r) \/ writeStatus(r) \/ pprofIndex(r) \/ String(r)
      PROVE  \A q \in Requests : FdInv(q)'
  <2>1. PICK k \in Kinds \ {"none"}, to \in {"gather", "one"}, asked \in SUBSET Machines, rest \in {"no", "failed"} :
            begin(r, k, to, asked, rest)
    BY <1>3, BeginStep, SMTT(30)
  <2>2. pc[r] = "idle" /\ UNCHANGED <<files, fds>> /\ \A q \in Requests \ {r} : ask'[q] = ask[q]
    BY <1>0, <2>1, Begun, SMTT(30)
  <2>3. \A m \in Machines : ask[r][m] = "no"
    BY <1>0, <2>2 DEF AskInv
  <2>4. fds[r] = {} /\ files[r] = {}
    BY <1>0, <1>t, <2>3, SMTT(30) DEF FdInv, FileInv, Have
  <2> QED
    BY <2>2, <2>4, SMTT(30) DEF FdInv
<1>4. ASSUME NEW r \in Requests, appendProfile(r) \/ parseProfile(r)
      PROVE  \A q \in Requests : FdInv(q)'
  <2>1. PICK m \in Have(r) : becomes(r, m, "sent") /\ \E ms : Close(r, ms)
    BY <1>4 DEF appendProfile, parseProfile
  <2>a. PICK ms : Close(r, ms)
    BY <2>1
  <2>2. m \in Machines /\ ask[r][m] = "have" /\ "sent" \in Asks
    BY DEF Have, Asks
  <2>3. \A q \in Requests, n \in Machines : ask[q][n] = "failed" => ask'[q][n] = "failed"
    BY <1>0, <2>1, <2>2, Becomes, SMTT(30)
  <2>4. /\ files'[r] = files[r] \ ms /\ fds'[r] = fds[r] \ ms
        /\ \A q \in Requests \ {r} : files'[q] = files[q] /\ fds'[q] = fds[q]
    BY <1>t, <2>a DEF Close
  <2> QED
    BY <1>t, <2>3, <2>4, SMTT(30) DEF FdInv
<1>5. ASSUME NEW r \in Requests, NEW m \in Machines, New(r, m)
      PROVE  \A q \in Requests : FdInv(q)'
  <2>1. PICK a \in {"have", "failed"} :
          /\ becomes(r, m, a)
          /\ a = "have" => buffered(r, m)
          /\ a = "failed" => UNCHANGED files /\ fds' \in {fds, [fds EXCEPT ![r] = @ \cup {m}]}
    BY <1>5 DEF New
  <2>2. ask[r][m] = "copy"
    BY <1>5 DEF New
  <2>3. a \in Asks
    BY DEF Asks
  <2>4. /\ ask'[r][m] = a
        /\ \A q \in Requests, n \in Machines : ask[q][n] = "failed" => ask'[q][n] = "failed"
    BY <1>0, <2>1, <2>2, <2>3, Becomes, SMTT(30)
  <2>5. \A q \in Requests \ {r} : files'[q] = files[q] /\ fds'[q] = fds[q]
    BY <1>t, <2>1 DEF buffered
  <2>6. CASE a = "have"
    <3>1. files'[r] = files[r] \cup {m} /\ fds'[r] = fds[r] \cup {m}
      BY <1>t, <2>1, <2>6 DEF buffered
    <3> QED
      BY <1>t, <2>4, <2>5, <3>1, SMTT(30) DEF FdInv
  <2>7. CASE a = "failed"
    <3>1. files' = files /\ fds'[r] \in {fds[r], fds[r] \cup {m}}
      BY <1>t, <2>1, <2>7
    <3> QED
      BY <1>t, <2>4, <2>5, <2>7, <3>1, SMTT(30) DEF FdInv
  <2> QED
    BY <2>6, <2>7
<1>6. ASSUME NEW r \in Requests, NEW m \in Machines,
             \/ CallFails(r, m) \/ (\E p \in Parts : allInfo(r, m, p)) \/ ProfileStats(r, m)
             \/ Expvars(r, m) \/ Profile(r, m) \/ CPUProfile(r, m) \/ CopyOne(r, m)
      PROVE  \A q \in Requests : FdInv(q)'
  <2>1. UNCHANGED <<files, fds>> /\ ask[r][m] \in {"call", "copy"} /\ \E a \in Asks : becomes(r, m, a)
    BY <1>6 DEF CallFails, allInfo, ProfileStats, Expvars, lists, Profile, CPUProfile, CopyOne, Asks
  <2> QED
    BY <1>2, <2>1
<1>7. ASSUME NEW r \in Requests,
             \/ StatusRows(r) \/ IndexRows(r) \/ VarsRows(r) \/ VarsError(r) \/ Profiles(r)
             \/ Marshaled(r) \/ MarshaledOne(r) \/ saveProfile(r) \/ saveExpvars(r)
      PROVE  \A q \in Requests : FdInv(q)'
  <2>1. UNCHANGED callVars
    BY <1>7 DEF StatusRows, IndexRows, VarsRows, VarsError, rows, Profiles, Marshaled, MarshaledOne,
                saveProfile, saveExpvars
  <2> QED
    BY <1>1, <2>1 DEF callVars
<1>8. CASE \/ UNCHANGED vars
           \/ \E r \in Requests, m \in Machines : StartCPUProfile(r, m) \/ StreamEnds(r, m)
           \/ \E m \in Machines : MachineStep(m)
  <2>1. UNCHANGED callVars
    BY <1>8 DEF vars, StartCPUProfile, StreamEnds, MachineStep
  <2> QED
    BY <1>1, <2>1 DEF callVars
<1> QED
  BY <1>3, <1>4, <1>5, <1>6, <1>7, <1>8, NextCases, SMTT(30)

\* However calls, copies, parses and writes fail, a finished request has closed
\* the bodies it opened and removed the files of filebuf, none too early, and it
\* has descriptors only of files whose copy failed.
THEOREM NothingLeaks == Spec => []NothingLeft
<1>1. Init => \A r \in Requests : FdInv(r)
  BY SMTT(30) DEF Init, FdInv
<1>2. DiagnosticsInv /\ (\A r \in Requests : FdInv(r)) /\ [Next]_vars => (\A r \in Requests : FdInv(r))'
  BY FdStep
<1>3. DiagnosticsInv /\ (\A r \in Requests : FdInv(r)) => NothingLeft
  <2> SUFFICES ASSUME DiagnosticsInv, \A r \in Requests : FdInv(r), NEW r \in Requests
               PROVE  /\ pc[r] = "done" =>
                            files[r] = {} /\ open[r] = {} /\ \A m \in fds[r] : ask[r][m] = "failed"
                      /\ kind[r] \in {"cpu", "heap"} /\ pc[r] # "done" =>
                            Have(r) = files[r] /\ Have(r) \subseteq fds[r]
    BY DEF NothingLeft
  <2>1. AskInv(r) /\ FileInv(r) /\ FdInv(r)
    BY DEF DiagnosticsInv
  <2> QED
    BY <2>1, SMTT(30) DEF AskInv, FileInv, FdInv
<1> QED
  BY <1>1, <1>2, <1>3, InvHolds, PTL DEF Spec

-----------------------------------------------------------------------------
(* What a response is made of.                                             *)

Increasing(s) == \A i, j \in DOMAIN s : i < j => s[i] < s[j]

\* What the call of r to m has brought: a profile that was copied was whole, a
\* row of the status has all its infos or an error, and the variables are those
\* of a machine that B owns.
SourceInv(r, m) ==
    /\ kind[r] \in {"cpu", "heap"} /\ ask[r][m] \in {"have", "sent"} => stream[r][m] = "eof"
    /\ ask[r][m] = "sent" => kind[r] \in {"cpu", "heap", "save"}
    /\ kind[r] = "status" /\ ask[r][m] = "have" => parts[r][m] = Parts
    /\ kind[r] = "status" /\ pc[r] # "idle" => ask[r][m] # "no"
    /\ kind[r] = "vars" /\ ask[r][m] # "no" => m \in Owned

\* What has been written, with debug, is what was sent, by address, and before
\* what is yet to be.
Written(r) ==
    /\ out[r] \in Seq(Machines) /\ Increasing(out[r]) /\ Range(out[r]) = Sent(r)
    /\ \A m \in Sent(r), n \in Have(r) : m < n

\* What Complete says of r.
CompleteFor(r) ==
    /\ Increasing(out[r])
    /\ kind[r] \in {"cpu", "heap"} =>
           /\ Range(out[r]) = Sent(r) /\ Have(r) = {}
           /\ \A m \in Range(out[r]) : stream[r][m] = "eof"
    /\ kind[r] = "status" =>
           /\ Range(out[r]) = Machines
           /\ \A m \in Machines : ask[r][m] = "failed" \/ parts[r][m] = Parts
    /\ kind[r] = "vars" => Range(out[r]) \subseteq Owned

OutInv(r) ==
    /\ pc[r] \in {"idle", "gather"} => out[r] = <<>> /\ Sent(r) = {}
    /\ pc[r] # "done" => code[r] = "none"
    /\ pc[r] = "emit" /\ r \in debug => Written(r)
    /\ code[r] = "ok" => CompleteFor(r)

CompleteInv == \A r \in Requests : OutInv(r) /\ \A m \in Machines : SourceInv(r, m)

\* A call of r to m ends with a; nothing else of r's calls changes.
LEMMA SourceKept ==
    ASSUME TypeOK, CompleteInv, UNCHANGED kind, NEW r \in Requests, NEW m \in Machines,
           NEW a \in Asks, becomes(r, m, a),
           \A q \in Requests : pc'[q] = "idle" <=> pc[q] = "idle",
           \A q \in Requests, n \in Machines : q # r \/ n # m =>
               stream'[q][n] = stream[q][n] /\ parts'[q][n] = parts[q][n],
           SourceInv(r, m)'
    PROVE  \A q \in Requests, n \in Machines : SourceInv(q, n)'
<1>1. \A q \in Requests, n \in Machines : q # r \/ n # m => ask'[q][n] = ask[q][n]
  BY Becomes, SMTT(30)
<1>2. ASSUME NEW q \in Requests, NEW n \in Machines, q # r \/ n # m PROVE SourceInv(q, n)'
  <2>1. SourceInv(q, n)
    BY DEF CompleteInv
  <2>2. ask'[q][n] = ask[q][n] /\ stream'[q][n] = stream[q][n] /\ parts'[q][n] = parts[q][n]
    BY <1>1, <1>2
  <2>3. kind'[q] = kind[q] /\ (pc'[q] = "idle" <=> pc[q] = "idle")
    OBVIOUS
  <2> QED
    BY <2>1, <2>2, <2>3, SMTT(30) DEF SourceInv
<1> QED
  BY <1>2

\* No call changes, or none but in what the machine writes.
LEMMA SourceSame ==
    ASSUME CompleteInv, UNCHANGED <<kind, ask, parts>>,
           \A q \in Requests : pc'[q] = "idle" <=> pc[q] = "idle",
           \A q \in Requests, n \in Machines : stream[q][n] = "eof" => stream'[q][n] = "eof"
    PROVE  \A q \in Requests, n \in Machines : SourceInv(q, n)'
<1> SUFFICES ASSUME NEW q \in Requests, NEW n \in Machines PROVE SourceInv(q, n)'
  OBVIOUS
<1>1. SourceInv(q, n)
  BY DEF CompleteInv
<1>2. /\ kind'[q] = kind[q] /\ (pc'[q] = "idle" <=> pc[q] = "idle")
      /\ ask'[q][n] = ask[q][n] /\ parts'[q][n] = parts[q][n]
      /\ stream[q][n] = "eof" => stream'[q][n] = "eof"
  OBVIOUS
<1> QED
  BY <1>1, <1>2, SMTT(30) DEF SourceInv

\* A step of r keeps OutInv of the other requests.
LEMMA OutOthers ==
    ASSUME CompleteInv, UNCHANGED kind, NEW r \in Requests,
           \A q \in Requests \ {r} :
               /\ pc'[q] = pc[q] /\ ask'[q] = ask[q] /\ parts'[q] = parts[q]
               /\ out'[q] = out[q] /\ code'[q] = code[q] /\ (q \in debug' <=> q \in debug)
               /\ \A n \in Machines : stream[q][n] = "eof" => stream'[q][n] = "eof",
           OutInv(r)'
    PROVE  \A q \in Requests : OutInv(q)'
<1> SUFFICES ASSUME NEW q \in Requests \ {r} PROVE OutInv(q)'
  OBVIOUS
<1>1. OutInv(q)
  BY DEF CompleteInv
<1>2. /\ pc'[q] = pc[q] /\ ask'[q] = ask[q] /\ parts'[q] = parts[q] /\ kind'[q] = kind[q]
      /\ out'[q] = out[q] /\ code'[q] = code[q] /\ (q \in debug' <=> q \in debug)
      /\ \A n \in Machines : stream[q][n] = "eof" => stream'[q][n] = "eof"
  OBVIOUS
<1>3. Sent(q)' = Sent(q) /\ Have(q)' = Have(q)
  BY <1>2, SMTT(30) DEF Sent, Have
<1>4. Written(q) => Written(q)'
  BY <1>2, <1>3 DEF Written
<1>5. CompleteFor(q) => CompleteFor(q)'
  BY <1>2, <1>3, SMTT(30) DEF CompleteFor, Sent
<1> QED
  BY <1>1, <1>2, <1>3, <1>4, <1>5, SMTT(30) DEF OutInv

\* The response to r is written: the only change of what OutInv is about.
LEMMA OutResponded ==
    ASSUME TypeOK, CompleteInv, NEW r \in Requests, NEW ms, NEW c, respond(r, ms, c),
           UNCHANGED <<kind, debug, callVars, serverVars>>, pc[r] # "idle",
           c = "ok" => CompleteFor(r)'
    PROVE  CompleteInv'
<1>1. /\ pc'[r] = "done" /\ code'[r] = c
      /\ \A q \in Requests \ {r} : pc'[q] = pc[q] /\ out'[q] = out[q] /\ code'[q] = code[q]
  BY DEF respond, TypeOK
<1>2. OutInv(r)'
  BY <1>1 DEF OutInv
<1>3. \A q \in Requests : OutInv(q)'
  BY <1>1, <1>2, OutOthers DEF callVars, serverVars
<1>4. \A q \in Requests, n \in Machines : SourceInv(q, n)'
  BY <1>1, SourceSame DEF callVars, serverVars
<1> QED
  BY <1>3, <1>4 DEF CompleteInv

\* A request that begins.
LEMMA OutBegins ==
    ASSUME TypeOK, CompleteInv, NEW r \in Requests,
           Marshal(r) \/ MarshalOne(r) \/ SaveProfile(r) \/ writeStatus(r) \/ pprofIndex(r) \/ String(r)
    PROVE  CompleteInv'
<1>1. PICK k \in Kinds \ {"none"}, to \in {"gather", "one"}, asked \in SUBSET Machines, rest \in {"no", "failed"} :
          /\ begin(r, k, to, asked, rest)
          /\ k = "status" => rest = "failed"
          /\ k = "vars" => asked = Owned /\ rest = "no"
          /\ debug' \subseteq debug \cup {r} /\ debug \subseteq debug'
  BY BeginStep, SMTT(30)
<1>2. /\ pc' = [pc EXCEPT ![r] = to] /\ pc[r] = "idle"
      /\ \A m \in Machines : ask'[r][m] = IF m \in asked THEN "call" ELSE rest
      /\ \A q \in Requests \ {r} : ask'[q] = ask[q]
      /\ UNCHANGED <<kind, parts, stream, out, code>>
  BY <1>1, Begun, SMTT(30) DEF serverVars
<1>3. kind[r] = k
  BY <1>1 DEF begin
<1>4. pc'[r] = to /\ \A q \in Requests \ {r} : pc'[q] = pc[q]
  BY <1>2, SMTT(30) DEF TypeOK
<1>5. out[r] = <<>> /\ code[r] = "none"
  BY <1>2 DEF CompleteInv, OutInv
<1>6. OutInv(r)'
  <2>1. Sent(r)' = {}
    BY <1>2 DEF Sent
  <2> QED
    BY <1>2, <1>4, <1>5, <2>1 DEF OutInv
<1>7. \A q \in Requests : OutInv(q)'
  <2>1. \A q \in Requests \ {r} : q \in debug' <=> q \in debug
    BY <1>1
  <2> QED
    BY <1>2, <1>4, <1>6, <2>1, OutOthers, SMTT(30)
<1>8. \A m \in Machines : SourceInv(r, m)'
  <2> SUFFICES ASSUME NEW m \in Machines PROVE SourceInv(r, m)'
    OBVIOUS
  <2>1. ask'[r][m] \in {"call", "no", "failed"}
    BY <1>2
  <2>2. k = "status" => ask'[r][m] # "no"
    BY <1>1, <1>2, SMTT(30)
  <2>3. k = "vars" /\ ask'[r][m] # "no" => m \in Owned
    BY <1>1, <1>2
  <2> QED
    BY <1>2, <1>3, <2>1, <2>2, <2>3, SMTT(30) DEF SourceInv
<1>9. ASSUME NEW q \in Requests \ {r}, NEW m \in Machines PROVE SourceInv(q, m)'
  <2>1. SourceInv(q, m)
    BY DEF CompleteInv
  <2>2. pc'[q] = pc[q] /\ ask'[q] = ask[q]
    BY <1>2, <1>4
  <2> QED
    BY <1>2, <2>1, <2>2, SMTT(30) DEF SourceInv
<1> QED
  BY <1>7, <1>8, <1>9, SMTT(30) DEF CompleteInv

\* A call of a request that is gathering, or has an address, moves.
LEMMA OutCalls ==
    ASSUME TypeOK, CompleteInv, NEW r \in Requests, NEW m \in Machines, NEW a \in Asks,
           becomes(r, m, a), UNCHANGED <<handlerVars>>, pc[r] \in {"gather", "one"},
           a = "sent" => pc[r] = "one",
           \A q \in Requests, n \in Machines : q # r \/ n # m =>
               stream'[q][n] = stream[q][n] /\ parts'[q][n] = parts[q][n],
           parts' \in [Requests -> [Machines -> SUBSET Parts]],
           SourceInv(r, m)'
    PROVE  CompleteInv'
<1> USE DEF handlerVars
<1>1. /\ ask'[r][m] = a
      /\ \A n \in Machines \ {m} : ask'[r][n] = ask[r][n]
      /\ \A q \in Requests \ {r} : ask'[q] = ask[q]
  BY Becomes, SMTT(30)
<1>2. OutInv(r)'
  <2>1. OutInv(r)
    BY DEF CompleteInv
  <2>2. pc[r] = "gather" => Sent(r)' = {}
    <3>1. pc[r] = "gather" => \A n \in Machines : ask[r][n] # "sent"
      BY <2>1 DEF OutInv, Sent
    <3>2. pc[r] = "gather" => \A n \in Machines : ask'[r][n] # "sent"
      BY <1>1, <3>1
    <3> QED
      BY <3>2 DEF Sent
  <2>3. pc'[r] = pc[r] /\ out'[r] = out[r] /\ code'[r] = code[r]
    OBVIOUS
  <2> QED
    BY <2>1, <2>2, <2>3 DEF OutInv
<1>3. \A q \in Requests \ {r} : parts'[q] = parts[q]
  BY SMTT(30) DEF TypeOK
<1>4. \A q \in Requests : OutInv(q)'
  BY <1>1, <1>2, <1>3, OutOthers, SMTT(30)
<1>5. \A q \in Requests, n \in Machines : SourceInv(q, n)'
  BY SourceKept, SMTT(30)
<1> QED
  BY <1>4, <1>5 DEF CompleteInv
\* A call is in progress only while its request gathers or has an address.
LEMMA Asking ==
    ASSUME TypeOK, NEW r \in Requests, AskInv(r), NEW m \in Machines, ask[r][m] \in {"call", "copy"}
    PROVE  pc[r] \in {"gather", "one"}
BY SMTT(30) DEF TypeOK, AskInv

\* One stream changes.
LEMMA StreamAt ==
    ASSUME TypeOK, NEW r \in Requests, NEW m \in Machines, NEW v, stream' = [stream EXCEPT ![r][m] = v]
    PROVE  /\ stream'[r][m] = v
           /\ \A q \in Requests, n \in Machines : q # r \/ n # m => stream'[q][n] = stream[q][n]
BY SMTT(30) DEF TypeOK

\* The calls keep CompleteInv.
LEMMA CompleteCalls ==
    ASSUME DiagnosticsInv, CompleteInv, NEW r \in Requests, NEW m \in Machines,
           \/ CallFails(r, m) \/ (\E p \in Parts : allInfo(r, m, p)) \/ ProfileStats(r, m)
           \/ Expvars(r, m) \/ Profile(r, m) \/ CPUProfile(r, m) \/ New(r, m) \/ CopyOne(r, m)
    PROVE  CompleteInv'
<1>0. TypeOK /\ AskInv(r) /\ SourceInv(r, m)
  BY DEF DiagnosticsInv, CompleteInv
<1>1. ask[r][m] \in {"call", "copy"} /\ UNCHANGED handlerVars
  BY DEF CallFails, allInfo, ProfileStats, Expvars, lists, Profile, CPUProfile, New, CopyOne
<1>2. pc[r] \in {"gather", "one"}
  BY <1>0, <1>1, Asking, SMTT(30)
<1>3. kind'[r] = kind[r] /\ pc'[r] = pc[r] /\ pc[r] # "idle"
  BY <1>1, <1>2 DEF handlerVars
<1>4. parts \in [Requests -> [Machines -> SUBSET Parts]]
  BY <1>0, SMTT(30) DEF TypeOK
<1>5. kind[r] = "vars" => m \in Owned
  BY <1>0, <1>1 DEF SourceInv
<1>6. CASE CallFails(r, m)
  <2>1. becomes(r, m, "failed") /\ UNCHANGED <<parts, stream>>
    BY <1>6 DEF CallFails, serverVars
  <2>2. ask'[r][m] = "failed"
    BY <1>0, <2>1, Becomes DEF Asks
  <2>3. SourceInv(r, m)'
    BY <1>3, <1>5, <2>2 DEF SourceInv
  <2> QED
    BY <1>0, <1>1, <1>2, <1>4, <2>1, <2>3, OutCalls DEF Asks
<1>7. ASSUME NEW p \in Parts, allInfo(r, m, p) PROVE CompleteInv'
  <2> DEFINE a == IF parts'[r][m] = Parts THEN "have" ELSE "call"
  <2>1. /\ becomes(r, m, a) /\ UNCHANGED stream /\ kind[r] = "status"
        /\ parts' = [parts EXCEPT ![r][m] = @ \cup {p}]
    BY <1>7, SMTT(30) DEF allInfo, serverVars
  <2>2. /\ parts' \in [Requests -> [Machines -> SUBSET Parts]]
        /\ \A q \in Requests, n \in Machines : q # r \/ n # m => parts'[q][n] = parts[q][n]
    BY <1>4, <2>1
  <2>3. a \in Asks /\ a # "sent"
    BY DEF Asks
  <2>4. ask'[r][m] = a
    BY <1>0, <2>1, <2>3, Becomes, SMTT(30)
  <2>5. SourceInv(r, m)'
    BY <1>3, <2>1, <2>4 DEF SourceInv
  <2> HIDE DEF a
  <2> QED
    BY <1>0, <1>1, <1>2, <2>1, <2>2, <2>3, <2>5, OutCalls
<1>8. CASE ProfileStats(r, m) \/ Expvars(r, m)
  <2>1. becomes(r, m, "have") /\ UNCHANGED <<parts, stream>> /\ kind[r] \in {"index", "vars"}
    BY <1>8 DEF ProfileStats, Expvars, lists, serverVars
  <2>2. ask'[r][m] = "have"
    BY <1>0, <2>1, Becomes DEF Asks
  <2>3. SourceInv(r, m)'
    BY <1>3, <1>5, <2>1, <2>2 DEF SourceInv
  <2> QED
    BY <1>0, <1>1, <1>2, <1>4, <2>1, <2>3, OutCalls DEF Asks
<1>9. CASE Profile(r, m) \/ CPUProfile(r, m)
  <2>1. becomes(r, m, "copy") /\ UNCHANGED parts /\ kind[r] \in {"cpu", "heap", "save"}
    BY <1>9, SMTT(30) DEF Profile, CPUProfile
  <2>2. PICK v : stream' = [stream EXCEPT ![r][m] = v]
    BY <1>9 DEF Profile, CPUProfile
  <2>3. \A q \in Requests, n \in Machines : q # r \/ n # m => stream'[q][n] = stream[q][n]
    BY <1>0, <2>2, StreamAt, SMTT(30)
  <2>4. ask'[r][m] = "copy"
    BY <1>0, <2>1, Becomes DEF Asks
  <2>5. SourceInv(r, m)'
    BY <1>3, <2>1, <2>4 DEF SourceInv
  <2> QED
    BY <1>0, <1>1, <1>2, <1>4, <2>1, <2>3, <2>5, OutCalls DEF Asks
<1>10. CASE New(r, m) \/ CopyOne(r, m)
  <2>1. UNCHANGED <<parts, stream>> /\ ask[r][m] = "copy"
    BY <1>10 DEF New, CopyOne, serverVars
  <2>2. PICK a \in {"have", "sent", "failed"} :
            becomes(r, m, a) /\ (a # "failed" => stream[r][m] = "eof") /\ (a = "sent" => pc[r] = "one")
    BY <1>10 DEF New, CopyOne
  <2>3. ask'[r][m] = a
    BY <1>0, <2>2, Becomes DEF Asks
  <2>4. kind[r] \in {"cpu", "heap", "save"}
    BY <1>0, <2>1 DEF AskInv
  <2>5. SourceInv(r, m)'
    BY <1>3, <2>1, <2>2, <2>3, <2>4 DEF SourceInv
  <2> QED
    BY <1>0, <1>1, <1>2, <1>4, <2>1, <2>2, <2>5, OutCalls DEF Asks
<1> QED
  BY <1>6, <1>7, <1>8, <1>9, <1>10

\* A response that is written at once keeps CompleteInv.
LEMMA CompleteResponds ==
    ASSUME DiagnosticsInv, CompleteInv, NEW r \in Requests,
           \/ StatusRows(r) \/ IndexRows(r) \/ VarsRows(r)
           \/ Marshaled(r) \/ MarshaledOne(r) \/ saveExpvars(r) \/ VarsError(r)
    PROVE  CompleteInv'
<1>0. TypeOK /\ AskInv(r) /\ OutInv(r) /\ \A m \in Machines : SourceInv(r, m)
  BY DEF DiagnosticsInv, CompleteInv
<1>1. UNCHANGED <<kind, debug, callVars, serverVars>> /\ pc[r] # "idle"
  BY DEF StatusRows, IndexRows, VarsRows, VarsError, rows, Waited, Marshaled, MarshaledOne, saveExpvars
<1>2. Sent(r)' = Sent(r) /\ Have(r)' = Have(r) /\ UNCHANGED <<ask, parts, stream, kind>>
  BY <1>1 DEF Sent, Have, callVars, serverVars
<1>3. Sent(r) \in SUBSET Machines /\ Have(r) \in SUBSET Machines
  BY DEF Sent, Have
<1>4. kind[r] \in {"cpu", "heap"} => \A m \in Sent(r) : stream[r][m] = "eof"
  BY <1>0 DEF SourceInv, Sent
<1>5. ASSUME NEW ms, NEW c, respond(r, ms, c) PROVE out'[r] = ms
  BY <1>0, <1>5 DEF respond, TypeOK
<1>6. CASE StatusRows(r) \/ IndexRows(r) \/ VarsRows(r)
  <2>1. Waited(r)
    BY <1>6 DEF StatusRows, IndexRows, VarsRows, rows
  <2>2. PICK ms \in {Machines, Have(r)} :
          /\ \E s \in inOrder(ms) : respond(r, s, "ok")
          /\ kind[r] \in {"status", "index", "vars"}
          /\ kind[r] = "status" => ms = Machines
          /\ kind[r] = "vars" => ms = Have(r)
    BY <1>6, SMTT(30) DEF StatusRows, IndexRows, VarsRows, rows
  <2>3. Increasing(out'[r]) /\ Range(out'[r]) = ms
    BY <1>5, <2>2 DEF inOrder, Increasing
  <2>4. kind[r] = "status" => \A m \in Machines : ask[r][m] = "failed" \/ parts[r][m] = Parts
    <3>1. ASSUME NEW m \in Machines, kind[r] = "status" PROVE ask[r][m] \in {"have", "failed"}
      <4>1. ask[r][m] \in {"no", "call", "copy", "have", "sent", "failed"}
        BY <1>0, SMTT(30) DEF TypeOK
      <4>2. ask[r][m] \notin {"call", "copy"} /\ pc[r] = "gather"
        BY <2>1 DEF Waited
      <4>3. ask[r][m] \notin {"no", "sent"}
        BY <1>0, <3>1, <4>2 DEF SourceInv
      <4> QED
        BY <4>1, <4>2, <4>3, SMTT(30)
    <3> QED
      BY <1>0, <3>1 DEF SourceInv
  <2>5. kind[r] = "vars" => Have(r) \subseteq Owned
    BY <1>0 DEF SourceInv, Have
  <2>6. CompleteFor(r)'
    BY <1>2, <2>2, <2>3, <2>4, <2>5 DEF CompleteFor
  <2> QED
    BY <1>0, <1>1, <2>2, <2>6, OutResponded
<1>7. CASE Marshaled(r)
  <2>1. pc[r] = "emit" /\ Have(r) = {} /\ kind[r] \in {"cpu", "heap"}
    BY <1>0, <1>7 DEF Marshaled, AskInv
  <2>2. PICK ms, c : /\ respond(r, ms, c)
                     /\ c = "ok" => Increasing(ms) /\ Range(ms) = Sent(r)
    <3>1. CASE r \in debug /\ respond(r, out[r], "ok")
      BY <1>0, <2>1, <3>1 DEF OutInv, Written
    <3>2. CASE \E s \in inOrder(Sent(r)) : respond(r, s, "ok")
      BY <3>2 DEF inOrder, Increasing
    <3>3. CASE \E c \in {"error", "cut"} : respond(r, <<>>, c)
      BY <3>3, SMTT(30)
    <3> QED
      BY <1>7, <3>1, <3>2, <3>3 DEF Marshaled
  <2>3. c = "ok" => CompleteFor(r)'
    BY <1>2, <1>4, <1>5, <2>1, <2>2 DEF CompleteFor
  <2> QED
    BY <1>0, <1>1, <2>2, <2>3, OutResponded, SMTT(30)
<1>8. CASE MarshaledOne(r) \/ saveExpvars(r)
  <2>1. pc[r] \in {"one", "vars"} /\ Have(r) = {} /\ kind[r] \in {"cpu", "heap", "save"}
    BY <1>0, <1>8 DEF MarshaledOne, saveExpvars, AskInv, Have
  <2>2. PICK ms, c : /\ respond(r, ms, c)
                     /\ c = "ok" => ms \in inOrder(Sent(r))
    BY <1>8 DEF MarshaledOne, saveExpvars
  <2>3. c = "ok" => Increasing(ms) /\ Range(ms) = Sent(r)
    BY <2>2, SMTT(30) DEF inOrder, Increasing
  <2>4. c = "ok" => CompleteFor(r)'
    BY <1>2, <1>4, <1>5, <2>1, <2>2, <2>3 DEF CompleteFor
  <2> QED
    BY <1>0, <1>1, <2>2, <2>4, OutResponded, SMTT(30)
<1>9. CASE VarsError(r)
  BY <1>0, <1>1, <1>9, OutResponded DEF VarsError
<1> QED
  BY <1>6, <1>7, <1>8, <1>9

\* One more is written after those before it.
LEMMA AppendInOrder ==
    ASSUME NEW s \in Seq(Machines), Increasing(s), NEW m \in Machines, \A n \in Range(s) : n < m
    PROVE  LET t == Append(s, m) IN
           t \in Seq(Machines) /\ Increasing(t) /\ Range(t) = Range(s) \cup {m}
<1> DEFINE t == Append(s, m)
<1>1. t \in Seq(Machines) /\ Len(t) = Len(s) + 1 /\ Len(s) \in Nat
      /\ DOMAIN t = 1 .. Len(s) + 1 /\ DOMAIN s = 1 .. Len(s)
  BY SMTT(30)
<1>2. (\A i \in 1 .. Len(s) : t[i] = s[i]) /\ t[Len(s) + 1] = m
  BY SMTT(30)
<1>3. Machines \subseteq Nat
  BY DiagnosticsAssumption, SMTT(30)
<1> HIDE DEF t
<1>4. ASSUME NEW i \in DOMAIN t, NEW j \in DOMAIN t, i < j PROVE t[i] < t[j]
  <2>1. i \in 1 .. Len(s) /\ t[i] = s[i]
    BY <1>1, <1>2, <1>4, SMTT(30)
  <2>2. CASE j = Len(s) + 1
    BY <1>1, <1>2, <2>1, <2>2, SMTT(30) DEF Range
  <2>3. CASE j # Len(s) + 1
    BY <1>1, <1>2, <1>4, <2>1, <2>3, SMTT(30) DEF Increasing
  <2> QED
    BY <2>2, <2>3, SMTT(30)
<1>5. Range(t) = Range(s) \cup {m}
  <2>1. \A i \in 1 .. Len(s) + 1 : i \in 1 .. Len(s) \/ i = Len(s) + 1
    BY <1>1, SMTT(30)
  <2>2. Len(s) + 1 \in DOMAIN t /\ \A i \in DOMAIN s : i \in DOMAIN t
    BY <1>1, SMTT(30)
  <2> QED
    BY <1>1, <1>2, <2>1, <2>2, SMTT(30) DEF Range
<1> QED
  BY <1>1, <1>4, <1>5, SMTT(30) DEF Increasing, t

\* A response that is put together from several profiles keeps CompleteInv.
LEMMA CompleteEmits ==
    ASSUME DiagnosticsInv, CompleteInv, NEW r \in Requests,
           Profiles(r) \/ appendProfile(r) \/ parseProfile(r)
    PROVE  CompleteInv'
<1>0. TypeOK /\ AskInv(r) /\ OutInv(r) /\ \A m \in Machines : SourceInv(r, m)
  BY DEF DiagnosticsInv, CompleteInv
<1>1. CASE Profiles(r)
  <2>1. UNCHANGED <<kind, debug, callVars, serverVars>> /\ pc[r] = "gather"
    BY <1>1 DEF Profiles, Waited
  <2>2. CASE Have(r) = {}
    BY <1>0, <1>1, <2>1, <2>2, OutResponded, SMTT(30) DEF Profiles
  <2>3. CASE Have(r) # {}
    <3>1. pc' = [pc EXCEPT ![r] = "emit"] /\ UNCHANGED <<out, code>>
      BY <1>1, <2>3 DEF Profiles
    <3>2. pc'[r] = "emit" /\ \A q \in Requests \ {r} : pc'[q] = pc[q]
      BY <1>0, <3>1, SMTT(30) DEF TypeOK
    <3>3. out[r] = <<>> /\ Sent(r) = {} /\ code[r] = "none"
      BY <1>0, <2>1 DEF OutInv
    <3>4. Written(r)'
      <4>1. Sent(r)' = {} /\ out'[r] = <<>>
        BY <2>1, <3>1, <3>3, SMTT(30) DEF Sent, callVars
      <4>2. Range(<<>>) = {} /\ Increasing(<<>>) /\ <<>> \in Seq(Machines)
        BY SMTT(30) DEF Range, Increasing
      <4> QED
        BY <4>1, <4>2, SMTT(30) DEF Written
    <3>5. OutInv(r)'
      BY <3>1, <3>2, <3>3, <3>4 DEF OutInv
    <3>6. \A q \in Requests : OutInv(q)'
      BY <2>1, <3>1, <3>2, <3>5, OutOthers, SMTT(30) DEF callVars, serverVars
    <3>7. \A q \in Requests, n \in Machines : SourceInv(q, n)'
      BY <2>1, <3>2, SourceSame, SMTT(30) DEF callVars, serverVars
    <3> QED
      BY <3>6, <3>7, SMTT(30) DEF CompleteInv
  <2> QED
    BY <2>2, <2>3
<1>2. CASE appendProfile(r) \/ parseProfile(r)
  <2>1. pc[r] = "emit" /\ UNCHANGED <<kind, debug, parts, stream>> /\ kind[r] \in {"cpu", "heap"}
    BY <1>0, <1>2 DEF appendProfile, parseProfile, serverVars, AskInv
  <2>2. PICK m \in Have(r) :
          /\ becomes(r, m, "sent")
          /\ r \in debug => \A n \in Have(r) : m <= n
          /\ \/ /\ UNCHANGED <<pc, code>>
                /\ \/ r \in debug /\ out' = [out EXCEPT ![r] = Append(@, m)]
                   \/ r \notin debug /\ out' = out
             \/ \E ms : \E c \in {"cut", "error"} : respond(r, ms, c)
    <3>1. CASE appendProfile(r)
      BY <3>1 DEF appendProfile
    <3>2. CASE parseProfile(r)
      BY <3>2 DEF parseProfile
    <3> QED
      BY <1>2, <3>1, <3>2, SMTT(30)
  <2>3. m \in Machines /\ ask[r][m] = "have"
    BY DEF Have
  <2>4. /\ ask'[r][m] = "sent"
        /\ \A n \in Machines \ {m} : ask'[r][n] = ask[r][n]
        /\ \A q \in Requests \ {r} : ask'[q] = ask[q]
    BY <1>0, <2>2, <2>3, Becomes DEF Asks
  <2>5. /\ \A q \in Requests \ {r} : pc'[q] = pc[q] /\ out'[q] = out[q] /\ code'[q] = code[q]
        /\ pc'[r] # "idle"
    BY <1>0, <2>1, <2>2, SMTT(30) DEF respond, TypeOK
  <2>6. OutInv(r)'
    <3>1. CASE \E ms : \E c \in {"cut", "error"} : respond(r, ms, c)
      <4>1. pc'[r] = "done" /\ code'[r] # "ok"
        BY <1>0, <3>1, SMTT(30) DEF respond, TypeOK
      <4> QED
        BY <4>1 DEF OutInv
    <3>2. CASE UNCHANGED <<pc, code>> /\ r \notin debug
      BY <1>0, <2>1, <3>2 DEF OutInv
    <3>3. CASE UNCHANGED <<pc, code>> /\ r \in debug /\ out' = [out EXCEPT ![r] = Append(@, m)]
      <4>1. out'[r] = Append(out[r], m) /\ Written(r)
        BY <1>0, <2>1, <3>3 DEF OutInv, TypeOK
      <4>2. Sent(r)' = Sent(r) \cup {m} /\ Have(r)' = Have(r) \ {m}
        BY <2>3, <2>4 DEF Sent, Have
      <4>3. \A n \in Range(out[r]) : n < m
        BY <4>1 DEF Written
      <4>4. out'[r] \in Seq(Machines) /\ Increasing(out'[r]) /\ Range(out'[r]) = Sent(r) \cup {m}
        BY <2>3, <4>1, <4>3, AppendInOrder DEF Written
      <4>5. \A k \in Sent(r) \cup {m}, n \in Have(r) \ {m} : k < n
        <5>1. \A n \in Have(r) \ {m} : m < n
          <6>1. \A n \in Have(r) : n \in Nat /\ m <= n
            BY <2>2, <3>3, DiagnosticsAssumption DEF Have
          <6>2. m \in Nat
            BY <2>3, DiagnosticsAssumption
          <6> QED
            BY <6>1, <6>2, SMTT(30)
        <5> QED
          BY <4>1, <5>1, SMTT(30) DEF Written
      <4>6. Written(r)'
        BY <4>2, <4>4, <4>5, SMTT(30) DEF Written
      <4> QED
        BY <1>0, <2>1, <3>3, <4>6 DEF OutInv
    <3> QED
      BY <2>2, <3>1, <3>2, <3>3
  <2>7. \A q \in Requests : OutInv(q)'
    BY <2>1, <2>4, <2>5, <2>6, OutOthers
  <2>8. SourceInv(r, m)'
    <3>1. stream[r][m] = "eof"
      BY <1>0, <2>1, <2>3 DEF SourceInv
    <3> QED
      BY <2>1, <2>4, <3>1 DEF SourceInv
  <2>9. \A q \in Requests, n \in Machines : SourceInv(q, n)'
    <3>1. \A q \in Requests : pc'[q] = "idle" <=> pc[q] = "idle"
      BY <2>1, <2>5
    <3> QED
      BY <1>0, <2>1, <2>2, <2>3, <2>8, <3>1, SourceKept DEF Asks
  <2> QED
    BY <2>7, <2>9, SMTT(30) DEF CompleteInv
<1> QED
  BY <1>1, <1>2

\* CompleteInv is inductive, given the invariant of the calls.
LEMMA CompleteStep ==
    ASSUME DiagnosticsInv, CompleteInv, [Next]_vars
    PROVE  CompleteInv'
<1>0. TypeOK
  BY DEF DiagnosticsInv
<1>1. ASSUME NEW r \in Requests, NEW m \in Machines, StartCPUProfile(r, m) \/ StreamEnds(r, m)
      PROVE  CompleteInv'
  <2>1. stream[r][m] # "eof" /\ UNCHANGED <<handlerVars, callVars>>
    BY <1>1 DEF StartCPUProfile, StreamEnds
  <2>2. PICK v : stream' = [stream EXCEPT ![r][m] = v]
    BY <1>1 DEF StartCPUProfile, StreamEnds
  <2>3. \A q \in Requests, n \in Machines : stream[q][n] = "eof" => stream'[q][n] = "eof"
    BY <1>0, <2>1, <2>2, StreamAt, SMTT(30)
  <2>4. OutInv(r)'
    <3>1. OutInv(r)
      BY DEF CompleteInv
    <3>2. Sent(r)' = Sent(r) /\ Have(r)' = Have(r)
      BY <2>1 DEF Sent, Have, callVars
    <3>3. Written(r)' <=> Written(r)
      BY <2>1, <3>2 DEF Written, handlerVars
    <3>4. CompleteFor(r) => CompleteFor(r)'
      BY <2>1, <2>3, <3>2, SMTT(30) DEF CompleteFor, Sent, handlerVars, callVars
    <3> QED
      BY <2>1, <3>1, <3>2, <3>3, <3>4 DEF OutInv, handlerVars
  <2>5. \A q \in Requests : OutInv(q)'
    BY <2>1, <2>3, <2>4, OutOthers DEF handlerVars, callVars
  <2>6. \A q \in Requests, n \in Machines : SourceInv(q, n)'
    BY <2>1, <2>3, SourceSame DEF handlerVars, callVars
  <2> QED
    BY <2>5, <2>6, SMTT(30) DEF CompleteInv
<1>2. CASE UNCHANGED vars \/ \E m \in Machines : MachineStep(m)
  <2>1. UNCHANGED <<handlerVars, callVars, serverVars>>
    BY <1>2 DEF vars, MachineStep
  <2>2. UNCHANGED <<pc, kind, debug, ask, parts, stream, out, code>>
    BY <2>1 DEF handlerVars, callVars, serverVars
  <2>3. \A r \in Requests : OutInv(r)'
    <3> SUFFICES ASSUME NEW r \in Requests PROVE OutInv(r)'
      OBVIOUS
    <3>1. Sent(r)' = Sent(r) /\ Have(r)' = Have(r)
      BY <2>2 DEF Sent, Have
    <3>2. (Written(r)' <=> Written(r)) /\ (CompleteFor(r)' <=> CompleteFor(r))
      BY <2>2, <3>1 DEF Written, CompleteFor
    <3> QED
      BY <2>2, <3>1, <3>2 DEF CompleteInv, OutInv
  <2>4. \A r \in Requests, m \in Machines : SourceInv(r, m)'
    BY <2>2 DEF CompleteInv, SourceInv
  <2> QED
    BY <2>3, <2>4 DEF CompleteInv
<1>3. ASSUME NEW r \in Requests, saveProfile(r) PROVE CompleteInv'
  <2>1. UNCHANGED <<kind, debug, out, code, callVars, serverVars>> /\ pc[r] = "one"
    BY <1>3 DEF saveProfile
  <2>2. pc'[r] = "vars" /\ \A q \in Requests \ {r} : pc'[q] = pc[q]
    BY <1>0, <1>3 DEF saveProfile, TypeOK
  <2>3. OutInv(r)'
    <3>1. OutInv(r) /\ code[r] = "none"
      BY <2>1 DEF CompleteInv, OutInv
    <3> QED
      BY <2>1, <2>2, <3>1 DEF OutInv
  <2>4. \A q \in Requests : OutInv(q)'
    BY <2>1, <2>2, <2>3, OutOthers DEF callVars, serverVars
  <2>5. \A q \in Requests, n \in Machines : SourceInv(q, n)'
    BY <2>1, <2>2, SourceSame, SMTT(30) DEF callVars, serverVars
  <2> QED
    BY <2>4, <2>5 DEF CompleteInv
<1> QED
  BY <1>0, <1>1, <1>2, <1>3, OutBegins, CompleteCalls, CompleteResponds, CompleteEmits, NextCases, SMTT(30)

\* A response without an error has every profile that was gathered, once, by
\* address and whole; a status has a row for every machine, which is an error or
\* has all three infos (Marshal, writeStatus, allInfo), however the calls end and
\* machines stop.
THEOREM ResponsesComplete == Spec => []Complete
<1>1. Init => CompleteInv
  <2> SUFFICES ASSUME Init PROVE CompleteInv
    OBVIOUS
  <2>1. ASSUME NEW r \in Requests
        PROVE  /\ pc[r] = "idle" /\ code[r] = "none" /\ out[r] = <<>>
               /\ \A m \in Machines : ask[r][m] = "no"
    BY DEF Init
  <2> QED
    BY <2>1 DEF CompleteInv, OutInv, SourceInv, Sent
<1>2. CompleteInv => Complete
  BY DEF CompleteInv, OutInv, CompleteFor, Complete, Increasing
<1> QED
  BY <1>1, <1>2, CompleteStep, InvHolds, PTL DEF Spec
=============================================================================
