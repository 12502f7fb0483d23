-------------------------- MODULE HttpClientProofs --------------------------
(***************************************************************************)
(* Proofs about HttpClient, for any number of requests, paths, origins,    *)
(* redirects and slots: slots come back, sensitive headers stay, files are *)
(* safe.                                                                   *)
(***************************************************************************)
EXTENDS HttpClient, FiniteSetTheorems, TLAPS

----------------------------------------------------------------------------
(* The inductive invariant. *)

\* Where a request keeps <path>.tmp open or has yet to move it.
Writing == {"read", "body"} \cup Moving

\* A request at work is on its way to some origin.
OriginShape == \A r \in Running : at[r] \in Origins /\ asked[r].origin \in Origins

\* What a download has written is its own; it is moved when it is whole.
DownloadShape(r) ==
    /\ phase[r] \in Writing /\ Path(r) # None =>
            tmp[Path(r)] # None /\ tmp[Path(r)].by = {r}
    /\ phase[r] \in {"body"} \cup Moving => Path(r) # None
    /\ phase[r] \in Moving => tmp[Path(r)].whole
    \* the move by way of .bak begins with a file in place, or a second fault
    /\ phase[r] = "aside" /\ Path(r) \in had /\ file[Path(r)] = None => faults >= 2

WholeFile(c) == c # None => c.whole /\ Cardinality(c.by) = 1

\* A file is missing while it is swapped, or after a fault.
Swapping(p) == \E r \in Requests : phase[r] = "swap" /\ Path(r) = p

PathShape(p) ==
    /\ WholeFile(file[p]) /\ WholeFile(bak[p])
    /\ p \in had /\ faults <= 1 => file[p] # None \/ bak[p] # None
    /\ p \in had /\ file[p] = None => faults >= 1 \/ Swapping(p)

FilesInv ==
    /\ \A r \in Requests : DownloadShape(r)
    /\ \A p \in Paths : PathShape(p)

IInv ==
    /\ TypeOK /\ IsFiniteSet(Running) /\ SlotsGivenBack
    /\ OriginShape /\ SensitiveHeadersStay /\ FilesInv

----------------------------------------------------------------------------
(* The shapes of a step. *)

\* A request at work goes on.
Stays(r) ==
    /\ phase[r] \in Active /\ phase'[r] \in Active
    /\ phase' = [phase EXCEPT ![r] = phase'[r]]
    /\ UNCHANGED <<asked, slotVars, windows>>

\* A request at work ends.
Ends(r) ==
    /\ phase[r] \in Active
    /\ Forget({r})
    /\ inflight' = inflight - 1
    /\ downloading' = downloading \ {Path(r)}

Moves(r) == Rename(r) \/ Aside(r) \/ Swap(r) \/ RollBack(r)

Works(r) ==
    \/ Expire(r) \/ GiveUp(r) \/ Breaks(r) \/ Connected(r) \/ Handshaken(r) \/ Sent(r)
    \/ Redirect(r) \/ Complete(r) \/ Body(r) \/ Closed(r) \/ Moves(r)

LEMMA FailsEnds ==
    ASSUME NEW r \in Requests, phase[r] \in Active, Fails(r)
    PROVE  Ends(r)
BY DEF Fails, Finish, GivenBack, Ends

LEMMA StepStays ==
    ASSUME TypeOK, NEW r \in Requests, NEW to, phase[r] \in Active, to \in Active,
           Step(r, to)
    PROVE  Stays(r)
BY DEF Step, Stays, TypeOK, slotVars

LEMMA CommittedEnds ==
    ASSUME NEW r \in Requests, phase[r] \in Active, Committed(r)
    PROVE  Ends(r)
BY DEF Committed, Finish, GivenBack, Ends

LEMMA WorkShape ==
    ASSUME TypeOK, NEW r \in Requests, Works(r)
    PROVE  Stays(r) \/ Ends(r)
<1> USE DEF Active, Moving
<1>1. CASE Expire(r)
  BY <1>1 DEF Expire, Stays, TypeOK, slotVars
<1>2. CASE GiveUp(r) \/ Breaks(r)
  BY <1>2, FailsEnds DEF GiveUp, Breaks, Waits
<1>3. CASE Connected(r) \/ Handshaken(r) \/ Sent(r)
  BY <1>3 DEF Connected, Handshaken, Sent, Goes, Stays, TypeOK, slotVars
<1>4. CASE Redirect(r)
  <2>1. phase[r] \in Active
    BY <1>4 DEF Redirect
  <2>2. CASE Fails(r)
    BY <2>1, <2>2, FailsEnds
  <2>3. CASE phase' = [phase EXCEPT ![r] = "connect"] /\ UNCHANGED <<asked, slotVars, windows>>
    BY <2>1, <2>3 DEF Stays, TypeOK
  <2> QED BY <1>4, <2>2, <2>3 DEF Redirect
<1>5. CASE Complete(r)
  BY <1>5 DEF Complete, Finish, GivenBack, Ends
<1>6. CASE Body(r)
  BY <1>6 DEF Body, Stays, TypeOK, slotVars
<1>7. CASE Closed(r)
  BY <1>7, FailsEnds DEF Closed, Goes, Stays, TypeOK, slotVars
<1>8. CASE Rename(r)
  BY <1>8, CommittedEnds, StepStays DEF Rename
<1>9. CASE Aside(r)
  BY <1>9, StepStays DEF Aside
<1>10. CASE Swap(r)
  BY <1>10, CommittedEnds, StepStays DEF Swap
<1>11. CASE RollBack(r)
  BY <1>11 DEF RollBack, Finish, GivenBack, Ends
<1> QED BY <1>1, <1>2, <1>3, <1>4, <1>5, <1>6, <1>7, <1>8, <1>9, <1>10, <1>11
     DEF Works, Moves

\* What a step is: of a request, or the end of all of them.
LEMMA NextShape ==
    Next => Crash \/ \E r \in Requests : Request(r) \/ Works(r)
BY DEF Next, Works, Moves

----------------------------------------------------------------------------
(* Slots. *)

SlotInv == TypeOK /\ IsFiniteSet(Running) /\ SlotsGivenBack

LEMMA ForgetShape ==
    ASSUME TypeOK, NEW R \in SUBSET Requests, Forget(R)
    PROVE  /\ Running' = Running \ R
           /\ \A s \in Requests \ R : /\ phase'[s] = phase[s] /\ asked'[s] = asked[s]
                                      /\ at'[s] = at[s] /\ hops'[s] = hops[s]
           /\ \A s \in R : phase'[s] = "ended" /\ asked'[s] = Nothing
BY DEF Forget, Running, TypeOK, Active, Moving

LEMMA SlotsRequest ==
    ASSUME SlotInv, NEW r \in Requests, Request(r)
    PROVE  /\ IsFiniteSet(Running)' /\ SlotsGivenBack'
           /\ inflight' \in 0..MaxInflight
<1>1. PICK o \in Origins, p \in Paths \cup {None} :
        /\ Free(p)
        /\ phase' = [phase EXCEPT ![r] = "connect"]
        /\ asked' = [asked EXCEPT ![r] = [origin |-> o, path |-> p]]
        /\ inflight' = inflight + 1
        /\ downloading' = downloading \cup ({p} \ {None})
  BY DEF Request
<1>2. r \notin Running /\ Running' = Running \cup {r}
  BY <1>1 DEF Request, Running, SlotInv, TypeOK, Active, Moving
<1>3. IsFiniteSet(Running') /\ Cardinality(Running') = Cardinality(Running) + 1
  BY <1>2, FS_AddElement DEF SlotInv
<1>4. Path(r)' = p /\ \A s \in Requests \ {r} : Path(s)' = Path(s)
  BY <1>1 DEF Path, SlotInv, TypeOK
<1>5. inflight' = Cardinality(Running')
  BY <1>1, <1>3 DEF SlotInv, SlotsGivenBack
<1>6. downloading' = {Path(s)' : s \in Running'} \ {None}
  BY <1>1, <1>2, <1>4 DEF SlotInv, SlotsGivenBack, Running
<1>7. ASSUME NEW s \in Running', NEW t \in Running', Path(s)' = Path(t)', Path(s)' # None
      PROVE  s = t
  <2>1. \A x \in Running : Path(x) # None => Path(x) # p
    BY <1>1 DEF Free, SlotInv, SlotsGivenBack
  <2> QED BY <1>2, <1>4, <1>7, <2>1 DEF SlotInv, SlotsGivenBack, Running
<1>8. inflight' \in 0..MaxInflight
  BY <1>1, ClientAssumption DEF Free, SlotInv, TypeOK
<1> QED BY <1>3, <1>5, <1>6, <1>7, <1>8 DEF SlotsGivenBack

LEMMA SlotsEnd ==
    ASSUME SlotInv, NEW r \in Requests, Ends(r)
    PROVE  /\ IsFiniteSet(Running)' /\ SlotsGivenBack'
           /\ inflight' \in 0..MaxInflight
<1>1. r \in Running
  BY DEF Ends, Running
<1>2. /\ Running' = Running \ {r}
      /\ \A s \in Requests \ {r} : Path(s)' = Path(s)
  BY ForgetShape DEF Ends, SlotInv, Path
<1>3. /\ IsFiniteSet(Running')
      /\ Cardinality(Running') = Cardinality(Running) - 1 /\ Cardinality(Running') \in Nat
  BY <1>1, <1>2, FS_RemoveElement, FS_CardinalityType DEF SlotInv
<1>4. inflight' = Cardinality(Running')
  BY <1>3 DEF Ends, SlotInv, SlotsGivenBack
<1>5. \A s \in Running' : Path(s)' = Path(s) /\ s \in Running /\ s # r
  BY <1>2 DEF Running
<1>6. downloading' = {Path(s)' : s \in Running'} \ {None}
  BY <1>1, <1>2, <1>5 DEF Ends, SlotInv, SlotsGivenBack
<1>7. \A s, t \in Running' : Path(s)' = Path(t)' /\ Path(s)' # None => s = t
  BY <1>5 DEF SlotInv, SlotsGivenBack
<1>8. inflight' \in 0..MaxInflight
  BY <1>3, <1>4, ClientAssumption DEF SlotInv, SlotsGivenBack, TypeOK
<1> QED BY <1>3, <1>4, <1>6, <1>7, <1>8 DEF SlotsGivenBack

LEMMA SlotsStay ==
    ASSUME SlotInv, NEW r \in Requests, Stays(r)
    PROVE  /\ IsFiniteSet(Running)' /\ SlotsGivenBack'
           /\ inflight' \in 0..MaxInflight
<1>1. Running' = Running
  BY DEF Stays, Running, SlotInv, TypeOK
<1>2. inflight' = inflight /\ downloading' = downloading /\ asked' = asked
  BY DEF Stays, slotVars
<1> QED BY <1>1, <1>2 DEF SlotInv, SlotsGivenBack, Path, TypeOK

LEMMA SlotsCrash ==
    ASSUME SlotInv, Crash
    PROVE  /\ IsFiniteSet(Running)' /\ SlotsGivenBack'
           /\ inflight' \in 0..MaxInflight
<1>1. Running' = {}
  BY ForgetShape DEF Crash, SlotInv, Running
<1>2. inflight' = 0 /\ downloading' = {}
  BY DEF Crash
<1> QED BY <1>1, <1>2, FS_EmptySet, ClientAssumption DEF SlotsGivenBack

----------------------------------------------------------------------------
(* Types. *)

\* The types of what belongs to the requests, and of what belongs to the files.
ReqType ==
    /\ phase \in [Requests -> {"idle", "ended"} \cup Active]
    /\ asked \in [Requests -> [origin : Origins \cup {None}, path : Paths \cup {None}]]
    /\ at \in [Requests -> Origins \cup {None}]
    /\ headers \in [Requests -> SUBSET Headers] /\ late \subseteq Requests
    /\ hops \in [Requests -> 0..MaxRedirects] /\ windows \in BOOLEAN

FileType ==
    /\ tmp \in [Paths -> Content] /\ file \in [Paths -> Content] /\ bak \in [Paths -> Content]
    /\ had \subseteq Paths /\ faults \in 0..MaxFaults

LEMMA TypeParts ==
    TypeOK <=> ReqType /\ FileType /\ inflight \in 0..MaxInflight /\ downloading \subseteq Paths
BY DEF TypeOK, ReqType, FileType

LEMMA ForgetType ==
    ASSUME ReqType, NEW R, Forget(R)
    PROVE  ReqType'
<1>1. 0 \in 0..MaxRedirects
  BY ClientAssumption
<1>2. Nothing \in [origin : Origins \cup {None}, path : Paths \cup {None}]
  BY DEF Nothing
<1> QED BY <1>1, <1>2 DEF Forget, ReqType

LEMMA FailsType ==
    ASSUME ReqType, FileType, NEW r \in Requests, Fails(r)
    PROVE  ReqType' /\ FileType'
<1>1. ReqType'
  BY ForgetType DEF Fails, Finish
<1>2. FileType'
  BY DEF Fails, FileType, Content
<1> QED BY <1>1, <1>2

LEMMA RefusedType ==
    ASSUME faults \in 0..MaxFaults, NEW willing \in BOOLEAN, Refused(willing)
    PROVE  /\ faults' \in 0..MaxFaults /\ faults' >= faults
           /\ willing => faults' = faults + 1
BY ClientAssumption DEF Refused

LEMMA CommittedType ==
    ASSUME ReqType, FileType, NEW r \in Requests, Path(r) \in Paths, Committed(r),
           bak' \in [Paths -> Content], faults' = faults
    PROVE  ReqType' /\ FileType'
<1>1. ReqType'
  BY ForgetType DEF Committed, Finish
<1>2. FileType'
  BY DEF Committed, FileType, Content
<1> QED BY <1>1, <1>2

\* A move has a path.
LEMMA MovePath ==
    ASSUME TypeOK, FilesInv, NEW r \in Requests, phase[r] \in {"body"} \cup Moving
    PROVE  Path(r) \in Paths
BY DEF FilesInv, DownloadShape, TypeOK, Path

LEMMA WorkType ==
    ASSUME TypeOK, FilesInv, NEW r \in Requests, Works(r)
    PROVE  ReqType' /\ FileType'
<1>0. ReqType /\ FileType /\ Path(r) \in Paths \cup {None}
  BY TypeParts DEF TypeOK, Path
<1> USE <1>0
<1>1. CASE Expire(r)
  BY <1>1 DEF Expire, ReqType, FileType, fileVars
<1>2. CASE GiveUp(r) \/ Breaks(r)
  BY <1>2, FailsType DEF GiveUp, Breaks
<1>3. CASE Connected(r) \/ Handshaken(r)
  BY <1>3 DEF Connected, Handshaken, Goes, ReqType, FileType, fileVars, Active
<1>4. CASE Sent(r)
  <2>1. ReqType'
    BY <1>4 DEF Sent, Goes, ReqType, Active
  <2>2. FileType'
    BY <1>4 DEF Sent, FileType, Content, Download
  <2> QED BY <2>1, <2>2
<1>5. CASE Redirect(r)
  <2>1. PICK o \in Origins :
            IF hops[r] = MaxRedirects \/ (at[r].tls /\ ~o.tls)
            THEN Fails(r)
            ELSE /\ phase' = [phase EXCEPT ![r] = "connect"]
                 /\ at' = [at EXCEPT ![r] = o]
                 /\ headers' = [headers EXCEPT ![r] =
                                   IF SameOrigin(at[r], o) THEN @ ELSE StripSensitive(@)]
                 /\ hops' = [hops EXCEPT ![r] = @ + 1]
                 /\ tmp' = IF Path(r) = None THEN tmp ELSE [tmp EXCEPT ![Path(r)] = None]
                 /\ UNCHANGED <<asked, late, slotVars, file, bak, had, faults, windows>>
    BY <1>5 DEF Redirect
  <2>2. CASE Fails(r)
    BY <2>2, FailsType
  <2>3. CASE ~(hops[r] = MaxRedirects \/ (at[r].tls /\ ~o.tls))
    <3>1. MaxRedirects \in Nat
      BY ClientAssumption
    <3>2. hops[r] + 1 \in 0..MaxRedirects
      <4>1. hops[r] \in 0..MaxRedirects
        BY DEF ReqType
      <4>2. hops[r] # MaxRedirects
        BY <2>3
      <4> HIDE <1>0
      <4> QED BY <3>1, <4>1, <4>2
    <3>3. headers' \in [Requests -> SUBSET Headers]
      <4>1. headers[r] \in SUBSET Headers /\ StripSensitive(headers[r]) \in SUBSET Headers
        BY DEF ReqType, StripSensitive
      <4>2. PICK names \in SUBSET Headers : headers' = [headers EXCEPT ![r] = names]
        BY <2>1, <2>3, <4>1
      <4> QED BY <4>2 DEF ReqType
    <3>4. ReqType'
      BY <2>1, <2>3, <3>2, <3>3 DEF ReqType, Active
    <3>5. FileType'
      BY <2>1, <2>3 DEF FileType, Content
    <3> QED BY <3>4, <3>5
  <2> QED BY <2>1, <2>2, <2>3
<1>6. CASE Complete(r)
  BY <1>6, ForgetType DEF Complete, Finish, FileType, fileVars
<1>7. CASE Body(r)
  <2>1. tmp[Path(r)] \in Download
    BY <1>7 DEF Body, FilesInv, DownloadShape, Writing, FileType, Content
  <2>2. \A all \in BOOLEAN : [tmp[Path(r)] EXCEPT !.whole = all] \in Content
    BY <2>1 DEF Content, Download
  <2>3. PICK all \in BOOLEAN : tmp' = [tmp EXCEPT ![Path(r)] = [tmp[Path(r)] EXCEPT !.whole = all]]
    BY <1>7 DEF Body
  <2>4. FileType'
    BY <1>7, <2>2, <2>3 DEF Body, FileType
  <2>5. ReqType'
    BY <1>7 DEF Body, ReqType, Active
  <2> QED BY <2>4, <2>5
<1>8. CASE Closed(r)
  BY <1>8, FailsType DEF Closed, Goes, ReqType, FileType, fileVars, Active, Moving
<1>9. ASSUME NEW to \in Moving, Step(r, to) PROVE ReqType'
  BY <1>9 DEF Step, ReqType, Active
<1>10. CASE Moves(r)
  <2>0. Path(r) \in Paths
    BY <1>10, MovePath DEF Moves, Rename, Aside, Swap, RollBack, Moving
  <2>1. CASE Rename(r)
    BY <2>0, <2>1, <1>9, CommittedType, RefusedType DEF Rename, FileType, Moving
  <2>2. CASE Aside(r)
    <3>1. ReqType'
      BY <2>2, <1>9 DEF Aside, Moving
    <3>2. faults' \in 0..MaxFaults
      BY <2>2, RefusedType DEF Aside, FileType
    <3> QED BY <2>0, <2>2, <3>1, <3>2 DEF Aside, MovedAside, FileType, Content
  <2>3. CASE Swap(r)
    <3>1. CASE Committed(r) /\ bak' = [bak EXCEPT ![Path(r)] = None] /\ UNCHANGED faults
      BY <2>0, <3>1, CommittedType DEF FileType, Content
    <3>2. CASE Refused(~(windows /\ file[Path(r)] # None)) /\ Step(r, "rollback")
               /\ UNCHANGED <<tmp, file, bak, had>>
      BY <3>2, <1>9, RefusedType DEF FileType, Moving
    <3> QED BY <2>3, <3>1, <3>2 DEF Swap
  <2>4. CASE RollBack(r)
    <3>1. ReqType'
      BY <2>4, ForgetType DEF RollBack, Finish
    <3>2. faults' \in 0..MaxFaults
      BY <2>4, RefusedType DEF RollBack, FileType, CanRollBack
    <3> QED BY <2>0, <2>4, <3>1, <3>2 DEF RollBack, FileType, Content
  <2> QED BY <1>10, <2>1, <2>2, <2>3, <2>4 DEF Moves
<1> QED BY <1>1, <1>2, <1>3, <1>4, <1>5, <1>6, <1>7, <1>8, <1>10 DEF Works

LEMMA DownloadingType == ASSUME ReqType, SlotsGivenBack PROVE downloading \subseteq Paths
BY DEF ReqType, SlotsGivenBack, Path, Running

\* Types and slots, over one step.
LEMMA SlotStep ==
    ASSUME SlotInv, FilesInv, [Next]_vars
    PROVE  SlotInv'
<1>1. CASE UNCHANGED vars
  BY <1>1 DEF vars, reqVars, slotVars, fileVars, SlotInv, TypeOK, SlotsGivenBack, Running, Path
<1>2. ASSUME ReqType', FileType', SlotsGivenBack', IsFiniteSet(Running)',
             inflight' \in 0..MaxInflight
      PROVE  SlotInv'
  BY <1>2, DownloadingType DEF SlotInv, TypeOK, ReqType, FileType,
      SlotsGivenBack, Path, Running
<1>3. ASSUME NEW r \in Requests, Request(r) PROVE ReqType' /\ FileType'
  <2>1. Given[r] \in SUBSET Headers
    BY ClientAssumption
  <2>2. headers' \in [Requests -> SUBSET Headers]
    BY <1>3, <2>1 DEF Request, SlotInv, TypeOK
  <2> QED
    BY <1>3, <2>2 DEF Request, SlotInv, TypeOK, ReqType, FileType, fileVars, Active
<1>4. ASSUME Crash PROVE ReqType' /\ FileType'
  BY <1>4, ForgetType, ClientAssumption, TypeParts DEF Crash, SlotInv, FileType
<1>5. ASSUME NEW r \in Requests, Works(r) PROVE SlotInv'
  BY <1>2, <1>5, WorkType, WorkShape, SlotsStay, SlotsEnd DEF SlotInv
<1> QED BY <1>1, <1>2, <1>3, <1>4, <1>5, SlotsRequest, SlotsCrash, NextShape

----------------------------------------------------------------------------
(* Headers. *)

HeaderInv == OriginShape /\ SensitiveHeadersStay

LEMMA HeadersForget ==
    ASSUME TypeOK, HeaderInv, NEW R \in SUBSET Requests, Forget(R)
    PROVE  HeaderInv'
<1>1. /\ Running' = Running \ R
      /\ \A s \in Running' :
            at'[s] = at[s] /\ asked'[s] = asked[s] /\ headers'[s] = headers[s]
  BY ForgetShape DEF Forget, Running
<1> QED BY <1>1 DEF HeaderInv, OriginShape, SensitiveHeadersStay

LEMMA HeadersStay ==
    ASSUME TypeOK, HeaderInv, NEW r \in Requests, Stays(r), UNCHANGED <<at, headers>>
    PROVE  HeaderInv'
<1>1. Running' = Running
  BY DEF Stays, Running, TypeOK
<1> QED BY <1>1 DEF Stays, HeaderInv, OriginShape, SensitiveHeadersStay

\* A redirect: to the same origin, or without the sensitive headers; never out of TLS.
LEMMA HeadersRedirect ==
    ASSUME TypeOK, HeaderInv, NEW r \in Requests, Redirect(r)
    PROVE  HeaderInv'
<1>1. PICK o \in Origins :
          IF hops[r] = MaxRedirects \/ (at[r].tls /\ ~o.tls)
          THEN Fails(r)
          ELSE /\ phase' = [phase EXCEPT ![r] = "connect"]
               /\ at' = [at EXCEPT ![r] = o]
               /\ headers' = [headers EXCEPT ![r] =
                                 IF SameOrigin(at[r], o) THEN @ ELSE StripSensitive(@)]
               /\ UNCHANGED asked
  BY DEF Redirect
<1>2. r \in Running
  BY DEF Redirect, Running, Active
<1>3. CASE Fails(r)
  BY <1>3, HeadersForget DEF Fails, Finish
<1>4. CASE ~(hops[r] = MaxRedirects \/ (at[r].tls /\ ~o.tls))
  <2>1. Running' = Running
    BY <1>1, <1>2, <1>4 DEF Running, TypeOK, Active
  <2>2. at'[r] = o /\ \A s \in Requests \ {r} : at'[s] = at[s]
    BY <1>1, <1>4 DEF TypeOK
  <2>3. OriginShape'
    BY <1>1, <1>4, <2>1, <2>2 DEF HeaderInv, OriginShape, Running
  <2>4. /\ headers'[r] = IF at[r] = o THEN headers[r] ELSE headers[r] \ SENSITIVE_HEADERS
        /\ \A s \in Requests \ {r} : headers'[s] = headers[s]
    BY <1>1, <1>4 DEF TypeOK, SameOrigin, StripSensitive
  <2>5. ASSUME NEW s \in Running
        PROVE  /\ headers'[s] \cap SENSITIVE_HEADERS # {} => at'[s] = asked'[s].origin
               /\ headers'[s] \ SENSITIVE_HEADERS = Given[s] \ SENSITIVE_HEADERS
    <3>1. CASE s = r
      BY <1>1, <1>2, <1>4, <2>2, <2>4, <3>1 DEF HeaderInv, SensitiveHeadersStay
    <3>2. CASE s # r
      BY <1>1, <1>4, <2>2, <2>4, <2>5, <3>2 DEF HeaderInv, SensitiveHeadersStay, Running
    <3> QED BY <3>1, <3>2
  <2>6. ASSUME NEW s \in Running PROVE asked'[s].origin.tls => at'[s].tls
    BY <1>1, <1>2, <1>4, <2>2, <2>6 DEF HeaderInv, SensitiveHeadersStay, Running
  <2> QED BY <2>1, <2>3, <2>5, <2>6 DEF HeaderInv, SensitiveHeadersStay
<1> QED BY <1>1, <1>3, <1>4

LEMMA HeadersStep ==
    ASSUME TypeOK, HeaderInv, [Next]_vars
    PROVE  HeaderInv'
<1>1. CASE UNCHANGED vars
  BY <1>1 DEF vars, reqVars, HeaderInv, OriginShape, SensitiveHeadersStay, Running
<1>2. ASSUME NEW r \in Requests, Request(r) PROVE HeaderInv'
  <2>1. PICK o \in Origins, p \in Paths \cup {None} :
          /\ phase' = [phase EXCEPT ![r] = "connect"]
          /\ asked' = [asked EXCEPT ![r] = [origin |-> o, path |-> p]]
          /\ at' = [at EXCEPT ![r] = o]
          /\ headers' = [headers EXCEPT ![r] = Given[r]]
    BY <1>2 DEF Request
  <2>2. Running' = Running \cup {r}
    BY <2>1 DEF Running, TypeOK, Active
  <2>3. at'[r] = o /\ asked'[r].origin = o /\ headers'[r] = Given[r]
    BY <2>1 DEF TypeOK
  <2>4. \A s \in Running \ {r} :
            at'[s] = at[s] /\ asked'[s] = asked[s] /\ headers'[s] = headers[s]
    BY <2>1 DEF TypeOK, Running
  <2> QED BY <2>2, <2>3, <2>4 DEF HeaderInv, OriginShape, SensitiveHeadersStay
<1>3. ASSUME NEW r \in Requests, Works(r) PROVE HeaderInv'
  <2>1. CASE Redirect(r)
    BY <2>1, HeadersRedirect
  <2>2. CASE Ends(r)
    BY <2>2, HeadersForget DEF Ends
  <2>3. CASE Stays(r) /\ ~Redirect(r)
    <3>1. UNCHANGED <<at, headers>> \/ Forget({r})
      BY <1>3, <2>3 DEF Works, Moves, Expire, GiveUp, Breaks, Connected, Handshaken,
          Sent, Complete, Body, Closed, Rename, Aside, Swap, RollBack, Step, Fails,
          Committed, Finish
    <3> QED BY <2>3, <3>1, HeadersStay, HeadersForget
  <2> QED BY <1>3, <2>1, <2>2, <2>3, WorkShape
<1>4. CASE Crash
  BY <1>4, HeadersForget DEF Crash
<1> QED BY <1>1, <1>2, <1>3, <1>4, NextShape

----------------------------------------------------------------------------
(* Files. *)

\* A step of a request changes its own path at most.
Local(r) ==
    /\ \A s \in Requests \ {r} : phase'[s] = phase[s] /\ asked'[s] = asked[s]
    /\ \A p \in Paths \ {Path(r)} :
        /\ tmp'[p] = tmp[p] /\ file'[p] = file[p] /\ bak'[p] = bak[p]
        /\ p \in had' <=> p \in had
    /\ faults' >= faults /\ faults' \in Nat

\* Nobody else works at the path of a request.
LEMMA PathOwned ==
    ASSUME SlotInv, NEW r \in Running, NEW s \in Requests,
           phase[s] \in Active, Path(s) = Path(r), Path(r) # None
    PROVE  s = r
BY DEF SlotInv, SlotsGivenBack, Running

LEMMA FilesLocal ==
    ASSUME SlotInv, FilesInv, NEW r \in Running, Local(r),
           DownloadShape(r)', \A p \in Paths : p = Path(r) => PathShape(p)'
    PROVE  FilesInv'
<1>0. faults \in Nat /\ None \notin Paths
  BY ClientAssumption DEF SlotInv, TypeOK
<1>1. ASSUME NEW s \in Requests, s # r PROVE DownloadShape(s)'
  <2>1. phase'[s] = phase[s] /\ Path(s)' = Path(s) /\ DownloadShape(s)
    BY <1>1 DEF Local, Path, FilesInv
  <2>2. CASE phase[s] \notin Writing
    BY <2>1, <2>2 DEF DownloadShape, Writing, Moving
  <2>3. CASE phase[s] \in Writing /\ Path(s) = None
    BY <1>0, <2>1, <2>3 DEF DownloadShape, Writing, Moving
  <2>4. CASE phase[s] \in Writing /\ Path(s) # None
    <3>1. Path(s) \in Paths
      BY <2>4 DEF SlotInv, TypeOK, Path
    <3>2. Path(s) # Path(r)
      BY <1>1, <2>4, PathOwned DEF Writing, Active
    <3>3. /\ tmp'[Path(s)] = tmp[Path(s)] /\ file'[Path(s)] = file[Path(s)]
          /\ Path(s) \in had' <=> Path(s) \in had
      BY <3>1, <3>2 DEF Local
    <3> QED BY <1>0, <2>1, <3>3 DEF DownloadShape, Local
  <2> QED BY <2>2, <2>3, <2>4
<1>2. ASSUME NEW p \in Paths, p # Path(r) PROVE PathShape(p)'
  <2>1. PathShape(p)
    BY DEF FilesInv
  <2>2. file'[p] = file[p] /\ bak'[p] = bak[p] /\ (p \in had' <=> p \in had)
    BY <1>2 DEF Local
  <2>3. Swapping(p) => Swapping(p)'
    BY <1>2 DEF Swapping, Local, Path
  <2> QED BY <1>0, <2>1, <2>2, <2>3 DEF PathShape, WholeFile, Local
<1> QED BY <1>1, <1>2 DEF FilesInv

\* If the file is missing and the request is not the one swapping it, something
\* went wrong before.
LEMMA Missing ==
    ASSUME SlotInv, FilesInv, NEW r \in Running, Path(r) \in had, file[Path(r)] = None,
           phase[r] # "swap"
    PROVE  faults >= 1
<1>1. Path(r) \in Paths /\ Path(r) # None
  BY ClientAssumption DEF SlotInv, TypeOK
<1>2. ASSUME Swapping(Path(r)) PROVE FALSE
  <2>1. PICK s \in Requests : phase[s] = "swap" /\ Path(s) = Path(r)
    BY <1>2 DEF Swapping
  <2>2. s = r
    BY <1>1, <2>1, PathOwned DEF Active, Moving
  <2> QED BY <2>1, <2>2
<1> QED BY <1>1, <1>2 DEF FilesInv, PathShape

\* The end of a request that leaves <path> and <path>.bak alone.
LEMMA FilesEnd ==
    ASSUME SlotInv, FilesInv, NEW r \in Requests, Ends(r), phase[r] # "swap",
           \A p \in Paths \ {Path(r)} : tmp'[p] = tmp[p],
           UNCHANGED <<file, bak, had, faults>>
    PROVE  FilesInv'
<1>1. r \in Running
  BY DEF Ends, Running
<1>2. \A s \in Requests \ {r} : phase'[s] = phase[s] /\ asked'[s] = asked[s]
  BY ForgetShape DEF Ends, SlotInv
<1>3. phase'[r] = "ended"
  BY ForgetShape DEF Ends, SlotInv
<1>4. Local(r)
  BY <1>2, ClientAssumption DEF Local, SlotInv, TypeOK
<1>5. DownloadShape(r)'
  BY <1>3 DEF DownloadShape, Writing, Moving
<1>6. ASSUME NEW p \in Paths, p = Path(r) PROVE PathShape(p)'
  <2>1. PathShape(p)
    BY DEF FilesInv
  <2>2. p \in had' /\ file'[p] = None => faults' >= 1
    BY <1>1, <1>6, Missing
  <2> QED BY <2>1, <2>2 DEF PathShape, WholeFile
<1> QED BY <1>1, <1>4, <1>5, <1>6, FilesLocal

\* A request that goes on and changes only its own <path>.tmp.
LEMMA FilesStay ==
    ASSUME SlotInv, FilesInv, NEW r \in Requests, Stays(r), phase[r] # "swap",
           \A p \in Paths \ {Path(r)} : tmp'[p] = tmp[p],
           UNCHANGED <<file, bak, had, faults>>,
           DownloadShape(r)'
    PROVE  FilesInv'
<1>1. r \in Running
  BY DEF Stays, Running
<1>2. Local(r)
  BY ClientAssumption DEF Local, Stays, SlotInv, TypeOK
<1>3. ASSUME NEW p \in Paths, p = Path(r) PROVE PathShape(p)'
  <2>1. PathShape(p)
    BY DEF FilesInv
  <2>2. p \in had' /\ file'[p] = None => faults' >= 1
    BY <1>1, <1>3, Missing
  <2> QED BY <2>1, <2>2 DEF PathShape, WholeFile
<1> QED BY <1>1, <1>2, <1>3, FilesLocal

\* Nothing but time passes, also during a swap.
LEMMA FilesExpire ==
    ASSUME FilesInv, UNCHANGED <<phase, asked, fileVars>>
    PROVE  FilesInv'
BY DEF FilesInv, DownloadShape, PathShape, WholeFile, Swapping, Path, fileVars

LEMMA FilesFails ==
    ASSUME SlotInv, FilesInv, NEW r \in Requests, phase[r] \in Active \ {"swap"}, Fails(r)
    PROVE  FilesInv'
<1>1. \A p \in Paths \ {Path(r)} : tmp'[p] = tmp[p]
  BY DEF Fails, SlotInv, TypeOK
<1> QED BY <1>1, FailsEnds, FilesEnd DEF Fails

\* What goes before the move.
LEMMA FilesWork ==
    ASSUME SlotInv, FilesInv, NEW r \in Requests, Works(r), ~Moves(r)
    PROVE  FilesInv'
<1> USE DEF Active, Moving
<1>0. TypeOK /\ DownloadShape(r)
  BY DEF SlotInv, FilesInv
<1>1. CASE Expire(r)
  BY <1>1, FilesExpire DEF Expire
<1>2. CASE GiveUp(r) \/ Breaks(r)
  BY <1>2, FilesFails DEF GiveUp, Breaks, Waits
<1>3. CASE Connected(r) \/ Handshaken(r)
  <2>1. phase[r] # "swap" /\ phase'[r] \in {"tls", "send"} /\ UNCHANGED fileVars
    BY <1>0, <1>3 DEF Connected, Handshaken, Goes, TypeOK
  <2>2. Stays(r)
    BY <1>0, <1>3 DEF Connected, Handshaken, Goes, Stays, TypeOK, slotVars
  <2>3. DownloadShape(r)'
    BY <2>1 DEF DownloadShape, Writing
  <2> QED BY <2>1, <2>2, <2>3, FilesStay DEF fileVars
<1>4. CASE Sent(r)
  <2>1. Stays(r) /\ phase[r] = "send" /\ phase'[r] = "read" /\ Path(r)' = Path(r)
    BY <1>0, <1>4 DEF Sent, Goes, Stays, TypeOK, slotVars, Path
  <2>2. \A p \in Paths \ {Path(r)} : tmp'[p] = tmp[p]
    BY <1>0, <1>4 DEF Sent, TypeOK
  <2>3. ASSUME Path(r) # None PROVE tmp'[Path(r)] = [by |-> {r}, whole |-> FALSE]
    <3>1. Path(r) \in Paths
      BY <1>0, <2>3 DEF TypeOK, Path
    <3>2. {x \in Requests : Path(x) = Path(r) /\ phase[x] \in {"read", "body"} \cup Moving} = {}
      BY <2>1, <2>3, PathOwned DEF Running
    <3> QED BY <1>0, <1>4, <2>3, <3>1, <3>2 DEF Sent, TypeOK
  <2>4. [by |-> {r}, whole |-> FALSE] # None
    <3>1. [by |-> {r}, whole |-> FALSE] \in Download
      BY DEF Download
    <3> QED BY <3>1, ClientAssumption
  <2>5. DownloadShape(r)'
    BY <2>1, <2>3, <2>4 DEF DownloadShape, Writing
  <2> QED BY <1>4, <2>1, <2>2, <2>5, FilesStay DEF Sent
<1>5. CASE Redirect(r)
  <2>1. phase[r] = "read"
    BY <1>5 DEF Redirect
  <2>2. CASE Fails(r)
    BY <2>1, <2>2, FilesFails
  <2>3. CASE /\ phase' = [phase EXCEPT ![r] = "connect"]
             /\ tmp' = IF Path(r) = None THEN tmp ELSE [tmp EXCEPT ![Path(r)] = None]
             /\ UNCHANGED <<asked, late, slotVars, file, bak, had, faults, windows>>
    <3>1. Stays(r) /\ phase'[r] = "connect"
      BY <1>0, <2>1, <2>3 DEF Stays, TypeOK
    <3>2. \A p \in Paths \ {Path(r)} : tmp'[p] = tmp[p]
      BY <1>0, <2>3 DEF TypeOK
    <3>3. DownloadShape(r)'
      BY <3>1 DEF DownloadShape, Writing
    <3> QED BY <2>1, <2>3, <3>1, <3>2, <3>3, FilesStay
  <2> QED BY <1>5, <2>2, <2>3 DEF Redirect
<1>6. CASE Complete(r)
  <2>1. Ends(r) /\ phase[r] = "read"
    BY <1>6 DEF Complete, Finish, GivenBack, Ends
  <2> QED BY <1>6, <2>1, FilesEnd DEF Complete, fileVars
<1>7. CASE Body(r)
  <2>1. /\ Stays(r) /\ phase[r] \in {"read", "body"} /\ phase'[r] = "body"
        /\ Path(r)' = Path(r) /\ Path(r) \in Paths /\ Path(r) # None
    BY <1>0, <1>7 DEF Body, Stays, TypeOK, slotVars, Path
  <2>2. PICK all \in BOOLEAN : tmp' = [tmp EXCEPT ![Path(r)] = [tmp[Path(r)] EXCEPT !.whole = all]]
    BY <1>7 DEF Body
  <2>3. tmp[Path(r)] \in Download /\ tmp[Path(r)].by = {r}
    BY <1>0, <2>1 DEF DownloadShape, Writing, TypeOK, Content
  <2>4. tmp'[Path(r)] \in Download /\ tmp'[Path(r)].by = {r}
    BY <1>0, <2>1, <2>2, <2>3 DEF TypeOK, Download
  <2>5. \A p \in Paths \ {Path(r)} : tmp'[p] = tmp[p]
    BY <1>0, <2>2 DEF TypeOK
  <2>6. DownloadShape(r)'
    BY <2>1, <2>4, ClientAssumption DEF DownloadShape, Writing
  <2> QED BY <1>7, <2>1, <2>5, <2>6, FilesStay DEF Body
<1>8. CASE Closed(r)
  <2>1. phase[r] = "body" /\ Path(r) # None
    BY <1>0, <1>8 DEF Closed, DownloadShape
  <2>2. CASE Fails(r)
    BY <2>1, <2>2, FilesFails
  <2>3. CASE /\ LengthMatches(Path(r)) /\ Goes(r, "body", "rename")
             /\ UNCHANGED <<asked, at, headers, hops, late, slotVars, fileVars, windows>>
    <3>1. Stays(r) /\ phase'[r] = "rename" /\ UNCHANGED fileVars /\ Path(r)' = Path(r)
      BY <1>0, <2>3 DEF Goes, Stays, TypeOK, slotVars, Path
    <3>2. DownloadShape(r)'
      BY <1>0, <2>1, <2>3, <3>1 DEF DownloadShape, Writing, LengthMatches, fileVars
    <3> QED BY <2>1, <3>1, <3>2, FilesStay DEF fileVars
  <2> QED BY <1>8, <2>2, <2>3 DEF Closed
<1> QED BY <1>1, <1>2, <1>3, <1>4, <1>5, <1>6, <1>7, <1>8 DEF Works

\* The move: what it leaves at its path.
LEMMA FilesCommit ==
    ASSUME SlotInv, FilesInv, NEW r \in Requests, phase[r] \in Moving, Committed(r),
           UNCHANGED faults, bak' = bak \/ bak' = [bak EXCEPT ![Path(r)] = None]
    PROVE  FilesInv'
<1>1. r \in Running /\ Path(r) \in Paths /\ Path(r) # None
  BY MovePath, ClientAssumption DEF Running, Active, SlotInv
<1>2. /\ phase'[r] = "ended"
      /\ \A s \in Requests \ {r} : phase'[s] = phase[s] /\ asked'[s] = asked[s]
  BY ForgetShape DEF Committed, Finish, SlotInv
<1>3. Local(r)
  BY <1>1, <1>2, ClientAssumption DEF Local, Committed, SlotInv, TypeOK
<1>4. DownloadShape(r)'
  BY <1>2 DEF DownloadShape, Writing, Moving
<1>5. ASSUME NEW p \in Paths, p = Path(r) PROVE PathShape(p)'
  <2>1. tmp[p] # None /\ tmp[p].whole /\ tmp[p].by = {r}
    BY <1>1, <1>5 DEF FilesInv, DownloadShape, Writing
  <2>2. file'[p] = tmp[p] /\ bak'[p] \in {bak[p], None}
    BY <1>1, <1>5 DEF Committed, SlotInv, TypeOK
  <2>3. WholeFile(bak[p])
    BY DEF FilesInv, PathShape
  <2>4. Cardinality({r}) = 1
    BY FS_Singleton
  <2>5. WholeFile(file[p])' /\ WholeFile(bak[p])' /\ file'[p] # None
    BY <2>1, <2>2, <2>3, <2>4 DEF WholeFile
  <2> QED BY <2>5 DEF PathShape
<1> QED BY <1>1, <1>3, <1>4, <1>5, FilesLocal

LEMMA FilesMove ==
    ASSUME SlotInv, FilesInv, NEW r \in Requests, Moves(r)
    PROVE  FilesInv'
<1> DEFINE q == Path(r)
<1>0. phase[r] \in Moving
  BY DEF Moves, Rename, Aside, Swap, RollBack, Moving
<1>1. /\ TypeOK /\ r \in Running /\ q \in Paths /\ q # None
      /\ DownloadShape(r) /\ PathShape(q)
  BY <1>0, MovePath, ClientAssumption DEF Running, Active, SlotInv, FilesInv
<1>2. faults \in Nat
  BY <1>1, ClientAssumption DEF TypeOK
<1>3. ASSUME NEW to \in Moving, Step(r, to), tmp' = tmp, had' = had,
             \A p \in Paths \ {q} : file'[p] = file[p] /\ bak'[p] = bak[p],
             faults' >= faults, faults' \in Nat
      PROVE  /\ Local(r) /\ phase'[r] = to /\ Path(r)' = Path(r)
             /\ tmp'[q].whole /\ tmp'[q] # None /\ tmp'[q].by = {r}
  BY <1>0, <1>1, <1>3 DEF Step, Local, TypeOK, Path, DownloadShape, Writing
<1>4. CASE Rename(r)
  <2> DEFINE willing == ~(windows /\ file[q] # None)
  <2>1. CASE Committed(r) /\ UNCHANGED <<bak, faults>>
    BY <1>0, <2>1, FilesCommit
  <2>2. CASE Refused(willing) /\ Step(r, "aside") /\ UNCHANGED <<tmp, file, bak, had>>
    <3>1. faults' >= faults /\ faults' \in Nat /\ (willing => faults' = faults + 1)
      BY <1>2, <2>2 DEF Refused
    <3>2. /\ Local(r) /\ phase'[r] = "aside" /\ Path(r)' = Path(r)
          /\ tmp'[q].whole /\ tmp'[q] # None /\ tmp'[q].by = {r}
      BY <1>3, <2>2, <3>1 DEF Moving
    <3>3. q \in had /\ file[q] = None => faults >= 1
      BY <1>1, <1>4, Missing DEF Rename
    <3>4. q \in had' /\ file'[q] = None => faults' >= 2
      BY <1>2, <2>2, <3>1, <3>3
    <3>5. DownloadShape(r)'
      BY <1>1, <3>2, <3>4 DEF DownloadShape, Writing
    <3>6. ASSUME NEW p \in Paths, p = Path(r) PROVE PathShape(p)'
      BY <1>1, <1>2, <2>2, <3>1, <3>4, <3>6 DEF PathShape, WholeFile
    <3> QED BY <1>1, <3>2, <3>5, <3>6, FilesLocal
  <2> QED BY <1>4, <2>1, <2>2 DEF Rename
<1>5. CASE Aside(r)
  <2>1. /\ phase[r] = "aside" /\ Step(r, "swap") /\ UNCHANGED <<tmp, had>>
        /\ \/ /\ file[q] # None
              /\ bak' = [bak EXCEPT ![q] = MovedAside(q)] /\ file' = [file EXCEPT ![q] = None]
              /\ UNCHANGED faults
           \/ /\ Refused(file[q] # None)
              /\ bak' = [bak EXCEPT ![q] = None] /\ UNCHANGED file
    BY <1>5 DEF Aside
  <2>2. faults' >= faults /\ faults' \in Nat
    BY <1>2, <2>1 DEF Refused
  <2>3. \A p \in Paths \ {q} : file'[p] = file[p] /\ bak'[p] = bak[p]
    BY <1>1, <2>1 DEF TypeOK
  <2>4. /\ Local(r) /\ phase'[r] = "swap" /\ Path(r)' = Path(r)
        /\ tmp'[q].whole /\ tmp'[q] # None /\ tmp'[q].by = {r}
    BY <1>3, <2>1, <2>2, <2>3 DEF Moving
  <2>5. DownloadShape(r)'
    BY <1>1, <2>4 DEF DownloadShape, Writing
  <2>6. \/ file[q] # None /\ file'[q] = None /\ bak'[q] = file[q]
        \/ file'[q] = file[q] /\ bak'[q] = None
    BY <1>1, <2>1 DEF TypeOK, MovedAside
  <2>7. q \in had /\ file'[q] = None /\ bak'[q] = None => faults >= 2
    BY <1>1, <2>1, <2>6 DEF DownloadShape
  <2>8. ASSUME NEW p \in Paths, p = Path(r) PROVE PathShape(p)'
    <3>1. Swapping(p)'
      BY <2>4, <2>8 DEF Swapping
    <3> QED BY <1>1, <1>2, <2>1, <2>2, <2>6, <2>7, <2>8, <3>1 DEF PathShape, WholeFile
  <2> QED BY <1>1, <2>4, <2>5, <2>8, FilesLocal
<1>6. CASE Swap(r)
  <2> DEFINE willing == ~(windows /\ file[q] # None)
  <2>1. CASE Committed(r) /\ bak' = [bak EXCEPT ![q] = None] /\ UNCHANGED faults
    BY <1>0, <2>1, FilesCommit
  <2>2. CASE Refused(willing) /\ Step(r, "rollback") /\ UNCHANGED <<tmp, file, bak, had>>
    <3>1. faults' >= faults /\ faults' \in Nat /\ (willing => faults' = faults + 1)
      BY <1>2, <2>2 DEF Refused
    <3>2. /\ Local(r) /\ phase'[r] = "rollback" /\ Path(r)' = Path(r)
          /\ tmp'[q].whole /\ tmp'[q] # None /\ tmp'[q].by = {r}
      BY <1>3, <2>2, <3>1 DEF Moving
    <3>3. DownloadShape(r)'
      BY <1>1, <3>2 DEF DownloadShape, Writing
    <3>4. ASSUME NEW p \in Paths, p = Path(r) PROVE PathShape(p)'
      BY <1>1, <1>2, <2>2, <3>1, <3>4 DEF PathShape, WholeFile
    <3> QED BY <1>1, <3>2, <3>3, <3>4, FilesLocal
  <2> QED BY <1>6, <2>1, <2>2 DEF Swap
<1>7. CASE RollBack(r)
  <2>1. /\ \/ /\ CanRollBack(q) /\ file' = [file EXCEPT ![q] = bak[q]]
              /\ bak' = [bak EXCEPT ![q] = None] /\ UNCHANGED faults
           \/ Refused(CanRollBack(q)) /\ UNCHANGED <<file, bak>>
        /\ tmp' = [tmp EXCEPT ![q] = None]
        /\ Finish(r, FALSE) /\ UNCHANGED had /\ phase[r] = "rollback"
    BY <1>7 DEF RollBack
  <2>2. /\ phase'[r] = "ended"
        /\ \A s \in Requests \ {r} : phase'[s] = phase[s] /\ asked'[s] = asked[s]
    BY <2>1, ForgetShape DEF Finish, SlotInv
  <2>3. faults' >= faults /\ faults' \in Nat
    BY <1>2, <2>1 DEF Refused
  <2>4. Local(r)
    BY <1>1, <2>1, <2>2, <2>3 DEF Local, TypeOK
  <2>5. DownloadShape(r)'
    BY <2>2 DEF DownloadShape, Writing, Moving
  <2>6. q \in had /\ file[q] = None => faults >= 1
    BY <1>1, <2>1, Missing
  <2>7. \/ bak[q] # None /\ file'[q] = bak[q] /\ bak'[q] = None
        \/ file'[q] = file[q] /\ bak'[q] = bak[q]
    BY <1>1, <2>1 DEF TypeOK, CanRollBack
  <2>8. ASSUME NEW p \in Paths, p = Path(r) PROVE PathShape(p)'
    BY <1>1, <1>2, <2>1, <2>3, <2>6, <2>7, <2>8 DEF PathShape, WholeFile
  <2> QED BY <1>1, <2>4, <2>5, <2>8, FilesLocal
<1> QED BY <1>4, <1>5, <1>6, <1>7 DEF Moves

LEMMA FilesStep ==
    ASSUME SlotInv, FilesInv, [Next]_vars
    PROVE  FilesInv'
<1>1. CASE UNCHANGED vars
  BY <1>1, FilesExpire DEF vars, reqVars
<1>2. ASSUME NEW r \in Requests, Request(r) PROVE FilesInv'
  <2>1. /\ phase[r] = "idle" /\ phase'[r] = "connect" /\ UNCHANGED fileVars
        /\ \A s \in Requests \ {r} : phase'[s] = phase[s] /\ asked'[s] = asked[s]
    BY <1>2 DEF Request, SlotInv, TypeOK
  <2>2. DownloadShape(r)'
    BY <2>1 DEF DownloadShape, Writing, Moving
  <2>3. \A s \in Requests \ {r} : DownloadShape(s)'
    BY <2>1 DEF FilesInv, DownloadShape, Path, fileVars
  <2>4. \A p \in Paths : Swapping(p) => Swapping(p)'
    BY <2>1 DEF Swapping, Path
  <2> QED BY <2>1, <2>2, <2>3, <2>4 DEF FilesInv, PathShape, WholeFile, fileVars
<1>3. CASE Crash
  <2>1. /\ \A s \in Requests : phase'[s] \notin Active
        /\ faults' = faults + 1 /\ faults \in Nat /\ UNCHANGED <<tmp, file, bak, had>>
    BY <1>3, ForgetShape, ClientAssumption DEF Crash, SlotInv, TypeOK, Active, Moving
  <2>2. \A s \in Requests : DownloadShape(s)'
    BY <2>1 DEF DownloadShape, Writing, Active, Moving
  <2>3. \A p \in Paths : PathShape(p)'
    BY <2>1 DEF FilesInv, PathShape, WholeFile
  <2> QED BY <2>2, <2>3 DEF FilesInv
<1> QED BY <1>1, <1>2, <1>3, NextShape, FilesWork, FilesMove

----------------------------------------------------------------------------
(* The theorems. *)

LEMMA InitInv == Init => IInv
<1> SUFFICES ASSUME Init PROVE IInv
  OBVIOUS
<1>1. Running = {}
  BY DEF Init, Running, Active, Moving
<1>2. 0 \in 0..MaxInflight /\ 0 \in 0..MaxRedirects /\ 0 \in 0..MaxFaults
  BY ClientAssumption
<1>3. TypeOK
  BY <1>2 DEF Init, TypeOK, Nothing, Content
<1>4. SlotsGivenBack /\ IsFiniteSet(Running)
  BY <1>1, FS_EmptySet DEF Init, SlotsGivenBack
<1>5. OriginShape /\ SensitiveHeadersStay
  BY <1>1 DEF OriginShape, SensitiveHeadersStay
<1>6. FilesInv
  BY DEF Init, FilesInv, DownloadShape, PathShape, WholeFile, Writing, Moving
<1> QED BY <1>3, <1>4, <1>5, <1>6 DEF IInv

LEMMA InvStep == IInv /\ [Next]_vars => IInv'
<1> SUFFICES ASSUME IInv, [Next]_vars PROVE IInv'
  OBVIOUS
<1>1. SlotInv'
  BY SlotStep DEF IInv, SlotInv
<1>2. HeaderInv'
  BY HeadersStep DEF IInv, HeaderInv
<1>3. FilesInv'
  BY FilesStep DEF IInv, SlotInv
<1> QED BY <1>1, <1>2, <1>3 DEF IInv, SlotInv, HeaderInv

\* Types, slots, headers and files together are inductive.
THEOREM Invariance == Spec => []IInv
BY InitInv, InvStep, PTL DEF Spec

\* Every variable keeps its type: _inflight is never below zero or above the cap.
THEOREM TypeCorrect == Spec => []TypeOK
BY Invariance, PTL DEF IInv

\* _inflight and _dl_active are exactly the requests at work and their paths, one
\* each, whatever fails in which order.
THEOREM SlotsCorrect == Spec => []SlotsGivenBack
BY Invariance, PTL DEF IInv

\* No chain of redirects takes Authorization, Cookie or Proxy-Authorization to an origin
\* they were not given for, or a request that began under TLS out of it; all other
\* headers go along (strip_sensitive, prepare_redirect).
THEOREM SensitiveHeadersCorrect == Spec => []SensitiveHeadersStay
BY Invariance, PTL DEF IInv

LEMMA InvFilesSafe == IInv => (faults <= 1 => FilesSafe)
BY DEF IInv, FilesInv, PathShape, WholeFile, FilesSafe

\* As long as no more than one rename was refused or one crash came, every file in
\* place is one whole download, and no file has gone without its copy.
THEOREM FilesCorrect == Spec => [](faults <= 1 => FilesSafe)
BY Invariance, InvFilesSafe, PTL

\* However many renames are refused and whenever the hub crashes, what is in place
\* is one whole download.
THEOREM FilesWhole ==
    Spec => [](\A p \in Paths : file[p] # None => file[p].whole /\ Cardinality(file[p].by) = 1)
<1>1. IInv => \A p \in Paths : file[p] # None => file[p].whole /\ Cardinality(file[p].by) = 1
  BY DEF IInv, FilesInv, PathShape, WholeFile
<1> QED BY <1>1, Invariance, PTL

=============================================================================
