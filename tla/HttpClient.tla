----------------------------- MODULE HttpClient -----------------------------
(***************************************************************************)
(* The outbound HTTP client, core/http_client.lua: requests driven by      *)
(* coroutines on the 1 s timer, redirects with their headers, and          *)
(* downloads that are written to <path>.tmp and moved onto <path>, on      *)
(* POSIX in one rename, on Windows by way of <path>.bak.                   *)
(*                                                                         *)
(* A step of a request is what one resume does for one phase of it.  Peers *)
(* do what they like: answer, stall, redirect anywhere, close early.       *)
(***************************************************************************)
EXTENDS Integers, FiniteSets

CONSTANTS
    Requests,       \* calls of http_client.request: the bound
    Paths,          \* download_to_file targets
    Origins,        \* records [tls |-> BOOLEAN, host |-> ...]
    Headers,        \* names of request headers, in lower case
    Given,          \* the headers each request is called with
    MaxInflight,    \* MAX_INFLIGHT
    MaxRedirects,   \* max_redirects of every request
    MaxFaults,      \* refused renames and crashes: the bound
    None

\* A file that holds what its writers wrote to it, the whole body or less.
Download == [by : SUBSET Requests, whole : BOOLEAN]

ASSUME ClientAssumption ==
    /\ None \notin Paths /\ None \notin Download /\ MaxInflight \in Nat \ {0}
    /\ MaxRedirects \in Nat /\ MaxFaults \in Nat
    /\ \A o \in Origins : o.tls \in BOOLEAN
    /\ Given \in [Requests -> SUBSET Headers]

VARIABLES
    phase,          \* of each request
    asked,          \* what it was called with: origin and path
    at,             \* origin of the present hop
    headers,        \* names of the headers of the present hop
    hops,           \* redirects followed
    late,           \* requests past their deadline
    inflight,       \* _inflight
    downloading,    \* _dl_active
    tmp, file, bak, \* content of <path>.tmp, <path>, <path>.bak
    had,            \* paths that have held a file (history)
    faults,
    windows         \* does rename refuse an existing target

reqVars == <<phase, asked, at, headers, hops, late>>
slotVars == <<inflight, downloading>>
fileVars == <<tmp, file, bak, had, faults>>
vars == <<reqVars, slotVars, fileVars, windows>>

Content == Download \cup {None}

Moving == {"rename", "aside", "swap", "rollback"}
Active == {"connect", "tls", "send", "read", "body"} \cup Moving

TypeOK ==
    /\ phase \in [Requests -> {"idle", "ended"} \cup Active]
    /\ asked \in [Requests -> [origin : Origins \cup {None}, path : Paths \cup {None}]]
    /\ at \in [Requests -> Origins \cup {None}]
    /\ headers \in [Requests -> SUBSET Headers] /\ late \subseteq Requests
    /\ hops \in [Requests -> 0..MaxRedirects]
    /\ inflight \in 0..MaxInflight /\ downloading \subseteq Paths
    /\ tmp \in [Paths -> Content] /\ file \in [Paths -> Content] /\ bak \in [Paths -> Content]
    /\ had \subseteq Paths /\ faults \in 0..MaxFaults /\ windows \in BOOLEAN

Goes(r, from, to) == phase[r] = from /\ phase' = [phase EXCEPT ![r] = to]
Path(r) == asked[r].path
Nothing == [origin |-> None, path |-> None]

----------------------------------------------------------------------------
(* Admission, and the end of a request. *)

\* The cap, and one download to a path at a time.
Free(path) == inflight < MaxInflight /\ path \notin downloading

\* request.  One that is refused is told so at once, and leaves nothing behind.
Request(r) ==
    /\ phase[r] = "idle"
    /\ \E o \in Origins, p \in Paths \cup {None} :
        /\ Free(p)
        /\ phase' = [phase EXCEPT ![r] = "connect"]
        /\ asked' = [asked EXCEPT ![r] = [origin |-> o, path |-> p]]
        /\ at' = [at EXCEPT ![r] = o]
        /\ headers' = [headers EXCEPT ![r] = Given[r]]
        /\ inflight' = inflight + 1
        /\ downloading' = downloading \cup ({p} \ {None})
    /\ UNCHANGED <<hops, late, fileVars, windows>>

\* Variant: a failed download stays in _dl_active.
KeepOnFailure(r, ok) == IF ok THEN downloading \ {Path(r)} ELSE downloading

\* The slot and the path are given back whatever happened.
GivenBack(r, ok) == downloading \ {Path(r)}

\* The coroutines of R are no more.
Forget(R) ==
    /\ phase' = [r \in Requests |-> IF r \in R THEN "ended" ELSE phase[r]]
    /\ asked' = [r \in Requests |-> IF r \in R THEN Nothing ELSE asked[r]]
    /\ at' = [r \in Requests |-> IF r \in R THEN None ELSE at[r]]
    /\ hops' = [r \in Requests |-> IF r \in R THEN 0 ELSE hops[r]]
    /\ headers' = [r \in Requests |-> IF r \in R THEN {} ELSE headers[r]]
    /\ late' = late \ R
    /\ UNCHANGED windows

\* drive has returned or raised: then on_complete or on_error is called.  A request
\* made by a callback is a step of its own: it finds the slot given back.
Finish(r, ok) ==
    /\ Forget({r})
    /\ inflight' = inflight - 1
    /\ downloading' = GivenBack(r, ok)

\* A failure: stream_to_file closes and removes <path>.tmp.
Fails(r) ==
    /\ Finish(r, FALSE)
    /\ tmp' = IF phase[r] \in {"read", "body"} \cup Moving /\ Path(r) # None
              THEN [tmp EXCEPT ![Path(r)] = None] ELSE tmp
    /\ UNCHANGED <<file, bak, had, faults>>

----------------------------------------------------------------------------
(* drive_once. *)

Expire(r) ==
    /\ phase[r] \in Active /\ r \notin late
    /\ late' = late \cup {r}
    /\ UNCHANGED <<phase, asked, at, headers, hops, slotVars, fileVars, windows>>

\* Variant: the handshake loop has no deadline.
WaitsNoHandshake == {"connect", "send", "read", "body"}

\* The loops that look at the deadline.
Waits == {"connect", "tls", "send", "read", "body"}

GiveUp(r) == r \in late /\ phase[r] \in Waits /\ Fails(r)

\* Refused, reset, a bad certificate, a status that is not 2xx, too much, chunked,
\* a write that failed, an error raised.
Breaks(r) == phase[r] \in {"connect", "tls", "send", "read", "body"} /\ Fails(r)

Connected(r) ==
    /\ Goes(r, "connect", IF at[r].tls THEN "tls" ELSE "send")
    /\ UNCHANGED <<asked, at, headers, hops, late, slotVars, fileVars, windows>>

Handshaken(r) ==
    /\ Goes(r, "tls", "send")
    /\ UNCHANGED <<asked, at, headers, hops, late, slotVars, fileVars, windows>>

\* Sent; a download opens <path>.tmp, "wb" truncates what is there.  A file somebody
\* else has open is then written by both.
Sent(r) ==
    /\ r \notin late /\ Goes(r, "send", "read")
    /\ tmp' = IF Path(r) = None THEN tmp
              ELSE [tmp EXCEPT ![Path(r)] =
                [by |-> {r} \cup {x \in Requests : Path(x) = Path(r)
                                    /\ phase[x] \in {"read", "body"} \cup Moving},
                 whole |-> FALSE]]
    /\ UNCHANGED <<asked, at, headers, hops, late, slotVars, file, bak, had, faults, windows>>

\* strip_sensitive: these three names go, whatever their case; every other header,
\* a custom one with a credential too, stays.
SENSITIVE_HEADERS == {"authorization", "cookie", "proxy-authorization"}
StripSensitive(names) == names \ SENSITIVE_HEADERS

\* Variant: an origin is taken to be its host.
SameHost(a, b) == a.host = b.host
SameOrigin(a, b) == a = b

\* A 3xx with a Location: stream_to_file drops the empty <path>.tmp; prepare_redirect
\* refuses a downgrade and drops the sensitive headers on the way to another origin.
\* Method and body are sent again as they were.
Redirect(r) ==
    /\ phase[r] = "read" /\ r \notin late
    /\ \E o \in Origins :
        IF hops[r] = MaxRedirects \/ (at[r].tls /\ ~o.tls)
        THEN Fails(r)
        ELSE /\ phase' = [phase EXCEPT ![r] = "connect"]
             /\ at' = [at EXCEPT ![r] = o]
             /\ headers' = [headers EXCEPT ![r] =
                                IF SameOrigin(at[r], o) THEN @ ELSE StripSensitive(@)]
             /\ hops' = [hops EXCEPT ![r] = @ + 1]
             /\ tmp' = IF Path(r) = None THEN tmp ELSE [tmp EXCEPT ![Path(r)] = None]
             /\ UNCHANGED <<asked, late, slotVars, file, bak, had, faults, windows>>

\* RAM mode: the whole response is there.
Complete(r) ==
    /\ phase[r] = "read" /\ Path(r) = None /\ r \notin late
    /\ Finish(r, TRUE)
    /\ UNCHANGED fileVars

\* A 2xx head: the body is streamed to <path>.tmp, part of it or all.
Body(r) ==
    /\ phase[r] \in {"read", "body"} /\ Path(r) # None /\ r \notin late
    /\ phase' = [phase EXCEPT ![r] = "body"]
    /\ \E all \in BOOLEAN : tmp' = [tmp EXCEPT ![Path(r)].whole = all]
    /\ UNCHANGED <<asked, at, headers, hops, late, slotVars, file, bak, had, faults, windows>>

\* Closed by the peer: less than Content-Length is a failure.  (A body without one
\* ends where the peer closes: it is whole.)
LengthMatches(p) == tmp[p].whole

Closed(r) ==
    /\ phase[r] = "body" /\ r \notin late
    /\ IF LengthMatches(Path(r))
       THEN /\ Goes(r, "body", "rename")
            /\ UNCHANGED <<asked, at, headers, hops, late, slotVars, fileVars, windows>>
       ELSE Fails(r)

----------------------------------------------------------------------------
(* The end of stream_to_file, one rename a step.  Other requests may take steps in *)
(* between in the model; they are at other paths.                                  *)

\* os.rename, which may be refused (a lock on the file): that is a fault.
Refused(willing) == /\ (willing => faults < MaxFaults)
                    /\ faults' = IF willing THEN faults + 1 ELSE faults

Step(r, to) ==
    /\ phase' = [phase EXCEPT ![r] = to]
    /\ UNCHANGED <<asked, at, headers, hops, late, slotVars, windows>>

\* tmp -> final is in place: on_complete.
Committed(r) ==
    /\ file' = [file EXCEPT ![Path(r)] = tmp[Path(r)]]
    /\ tmp' = [tmp EXCEPT ![Path(r)] = None]
    /\ had' = had \cup {Path(r)}
    /\ Finish(r, TRUE)

Rename(r) ==
    /\ phase[r] = "rename"
    /\ LET willing == ~(windows /\ file[Path(r)] # None) IN
       \/ willing /\ Committed(r) /\ UNCHANGED <<bak, faults>>
       \/ Refused(willing) /\ Step(r, "aside") /\ UNCHANGED <<tmp, file, bak, had>>

\* Variant: the file in the way is removed.
RemovedFirst(p) == None
MovedAside(p) == file[p]

\* The old .bak goes, final -> .bak if there is one.
Aside(r) ==
    /\ phase[r] = "aside"
    /\ LET p == Path(r) IN
       \/ /\ file[p] # None
          /\ bak' = [bak EXCEPT ![p] = MovedAside(p)] /\ file' = [file EXCEPT ![p] = None]
          /\ UNCHANGED faults
       \/ /\ Refused(file[p] # None)
          /\ bak' = [bak EXCEPT ![p] = None] /\ UNCHANGED file
    /\ Step(r, "swap") /\ UNCHANGED <<tmp, had>>

\* tmp -> final once more.
Swap(r) ==
    /\ phase[r] = "swap"
    /\ LET p == Path(r)
           willing == ~(windows /\ file[p] # None) IN
       \/ willing /\ Committed(r) /\ bak' = [bak EXCEPT ![p] = None] /\ UNCHANGED faults
       \/ Refused(willing) /\ Step(r, "rollback") /\ UNCHANGED <<tmp, file, bak, had>>

CanRollBack(p) == bak[p] # None

\* .bak -> final, and the download has failed.
RollBack(r) ==
    /\ phase[r] = "rollback"
    /\ LET p == Path(r) IN
       /\ \/ /\ CanRollBack(p) /\ file' = [file EXCEPT ![p] = bak[p]]
             /\ bak' = [bak EXCEPT ![p] = None] /\ UNCHANGED faults
          \/ Refused(CanRollBack(p)) /\ UNCHANGED <<file, bak>>
       /\ tmp' = [tmp EXCEPT ![p] = None]
       /\ Finish(r, FALSE) /\ UNCHANGED had

\* The process ends, or restarts: a fresh Lua state, the files as they are.
Crash ==
    /\ faults < MaxFaults /\ faults' = faults + 1
    /\ Forget({r \in Requests : phase[r] \in Active}) /\ inflight' = 0 /\ downloading' = {}
    /\ UNCHANGED <<tmp, file, bak, had>>

----------------------------------------------------------------------------
Init ==
    /\ phase = [r \in Requests |-> "idle"]
    /\ asked = [r \in Requests |-> Nothing]
    /\ at = [r \in Requests |-> None]
    /\ headers = [r \in Requests |-> {}] /\ late = {} /\ hops = [r \in Requests |-> 0]
    /\ inflight = 0 /\ downloading = {}
    /\ tmp = [p \in Paths |-> None] /\ file = tmp /\ bak = tmp
    /\ had = {} /\ faults = 0 /\ windows \in BOOLEAN

Next ==
    \/ \E r \in Requests :
        \/ Request(r) \/ Expire(r) \/ GiveUp(r) \/ Breaks(r)
        \/ Connected(r) \/ Handshaken(r) \/ Sent(r) \/ Redirect(r) \/ Complete(r)
        \/ Body(r) \/ Closed(r)
        \/ Rename(r) \/ Aside(r) \/ Swap(r) \/ RollBack(r)
    \/ Crash

\* Time passes, and the timer resumes what is late or at work on its files.  Peers owe
\* nothing.
Spec ==
    /\ Init /\ [][Next]_vars
    /\ \A r \in Requests :
        /\ WF_vars(Expire(r)) /\ WF_vars(GiveUp(r))
        /\ WF_vars(Rename(r) \/ Aside(r) \/ Swap(r) \/ RollBack(r))

----------------------------------------------------------------------------
Running == {r \in Requests : phase[r] \in Active}

\* _inflight counts the requests at work and _dl_active holds their paths, one each:
\* no order of failures, redirects and restarts uses the client up.
SlotsGivenBack ==
    /\ inflight = Cardinality(Running)
    /\ downloading = {Path(r) : r \in Running} \ {None}
    /\ \A r, s \in Running : Path(r) = Path(s) /\ Path(r) # None => r = s

\* Authorization, Cookie and Proxy-Authorization are only sent to the origin they were
\* given for, through any chain of redirects (also one that leads back), and what began
\* under TLS stays under TLS.  No other header is held back: each one goes to every hop,
\* of whatever origin, which is why the comment at max_redirects warns of credentials in
\* custom headers.
SensitiveHeadersStay ==
    \A r \in Running :
        /\ headers[r] \cap SENSITIVE_HEADERS # {} => at[r] = asked[r].origin
        /\ asked[r].origin.tls => at[r].tls
        /\ headers[r] \ SENSITIVE_HEADERS = Given[r] \ SENSITIVE_HEADERS

\* A file in place is one download from its first to its last byte; and once there
\* was a file there is one, or at least its copy (http_client.lua at .bak): one
\* refused rename or crash does not lose it.
FilesSafe ==
    \A p \in Paths :
        /\ file[p] # None => file[p].whole /\ Cardinality(file[p].by) = 1
        /\ p \in had => file[p] # None \/ bak[p] # None

\* A request that was accepted is answered to its caller, unless the hub restarts:
\* it does not stay at work for ever, whatever its peers do.
Answered == \A r \in Requests : phase[r] = "connect" ~> phase[r] = "ended"
=============================================================================
