--------------------------- MODULE DocumentService ---------------------------
(***************************************************************************)
(* domain.DocumentService over the MinIO bucket and the table              *)
(* policy_documents, called by concurrent request handlers.                *)
(*                                                                         *)
(* An attestation is generated from one read of the policy, uploaded under *)
(* a key made of the policy and the second of the upload, and recorded.    *)
(* Nothing holds these steps together: the policy may change meanwhile,    *)
(* another upload may take the same key, and each step may fail and leave  *)
(* the ones before it done.                                                *)
(*                                                                         *)
(* The router registers the two routes only if there is a store, so        *)
(* ErrNoMinIOStore is not modelled; neither is the expiry of objects after *)
(* seven years.                                                            *)
(***************************************************************************)
EXTENDS Integers, Sequences, Lifecycle

CONSTANTS Handlers,     \* request-handling goroutines, of one or more replicas
          Policies,     \* policy ids
          Statuses,     \* statuses the policies move between
          None,         \* no policy, no object
          MaxRequests,  \* bound on the requests of one behaviour
          MaxChanges,   \* bound on the changes of each policy
          MaxSecond     \* bound on the clock

ASSUME DocumentAssumption ==
  /\ Statuses \subseteq PolicyStatus
  /\ None \notin Policies
  /\ None \notin [request : 1 .. MaxRequests, policy : Policies, version : Nat]
  /\ MaxRequests \in Nat /\ MaxChanges \in Nat /\ MaxSecond \in Nat

VARIABLES
  history,    \* the statuses of each policy so far; <<>> before it is created
  objects,    \* bucket policy-documents: what is stored under each key
  documents,  \* table policy_documents
  second,     \* the clock, in the resolution of the key
  pc, call,   \* where each handler is and what it was asked
  read,       \* the version of the policy it generated the PDF from
  key,        \* the object key Upload made
  received,   \* requests received so far; a request is known by its number
  outcome     \* the answer to each request

vars == <<history, objects, documents, second, pc, call, read, key, received,
          outcome>>
world == <<history, objects, documents, second>>

Keys == Policies \X (0 .. MaxSecond)
Requests == 1 .. MaxRequests

\* A PDF is told apart by the request that made it; it shows one version of one
\* policy.
Pdf == [request : Requests, policy : Policies, version : Nat]

\* A row; its uuid is drawn by the request that inserts it.
Document == [request : Requests, policy : Policies, key : Keys]

Call == [op : {"attest", "list", ""}, policy : Policies \cup {None},
         request : 0 .. MaxRequests, since : Nat]
NoCall == [op |-> "", policy |-> None, request |-> 0, since |-> 0]

TypeOK ==
  /\ history \in [Policies -> Seq(Statuses)]
  /\ objects \in [Keys -> Pdf \cup {None}]
  /\ documents \subseteq Document
  /\ second \in 0 .. MaxSecond
  /\ pc \in [Handlers -> {"idle", "called", "upload", "put", "stored",
                          "recorded"}]
  /\ call \in [Handlers -> Call]
  /\ read \in [Handlers -> Nat]
  /\ key \in [Handlers -> Keys \cup {<<>>}]
  /\ received \in 0 .. MaxRequests
  /\ outcome \in [Requests -> {"", "ok", "not_found", "forbidden", "error"}]

\* Policies are as earlier calls left them; nothing was generated yet.
Init ==
  /\ history \in [Policies -> {<<>>} \cup {<<s>> : s \in Statuses}]
  /\ objects = [k \in Keys |-> None]
  /\ documents = {}
  /\ second = 0
  /\ pc = [h \in Handlers |-> "idle"]
  /\ call = [h \in Handlers |-> NoCall]
  /\ read = [h \in Handlers |-> 0]
  /\ key = [h \in Handlers |-> <<>>]
  /\ received = 0
  /\ outcome = [n \in Requests |-> ""]

------------------------------------------------------------------------------
(* Around the service *)

\* PolicyService writes a row.  Because stale copies are written back, any
\* status may follow any other.
Change(p) ==
  /\ Len(history[p]) <= MaxChanges
  /\ \E s \in Statuses : history' = [history EXCEPT ![p] = Append(@, s)]
  /\ UNCHANGED <<objects, documents, second, pc, call, read, key, received,
                 outcome>>

Tick ==
  /\ second < MaxSecond
  /\ second' = second + 1
  /\ UNCHANGED <<history, objects, documents, pc, call, read, key, received,
                 outcome>>

Receive(h) ==
  /\ pc[h] = "idle" /\ received < MaxRequests
  /\ received' = received + 1
  /\ \E op \in {"attest", "list"}, p \in Policies :
       call' = [call EXCEPT ![h] = [op |-> op, policy |-> p,
                                    request |-> received + 1,
                                    since |-> Len(history[p])]]
  /\ pc' = [pc EXCEPT ![h] = "called"]
  /\ UNCHANGED <<world, read, key, outcome>>

------------------------------------------------------------------------------
(* The handler *)

Finish(h, answer) ==
  /\ pc' = [pc EXCEPT ![h] = "idle"]
  /\ call' = [call EXCEPT ![h] = NoCall]
  /\ read' = [read EXCEPT ![h] = 0]
  /\ key' = [key EXCEPT ![h] = <<>>]
  /\ outcome' = [outcome EXCEPT ![call[h].request] = answer]
  /\ UNCHANGED <<world, received>>

Step(h, f, t) == /\ pc[h] = f /\ pc' = [pc EXCEPT ![h] = t]
                 /\ UNCHANGED <<history, second, call, received, outcome>>

\* GetByID of the policy h was asked for; its version is its place in history.
Current(h) == Len(history[call[h].policy])
Exists(h) == Current(h) > 0
Eligible(p, version) == history[p][version] \in {"active", "amended"}

ReadMissing(h) == pc[h] = "called" /\ ~Exists(h) /\ Finish(h, "not_found")

\* ListDocuments changes nothing, and an object that cannot be presigned is
\* listed without a URL.
List(h) == /\ pc[h] = "called" /\ call[h].op = "list" /\ Exists(h)
           /\ Finish(h, "ok")

\* ErrDocumentForbidden.
Refuse(h) == /\ pc[h] = "called" /\ call[h].op = "attest" /\ Exists(h)
             /\ ~Eligible(call[h].policy, Current(h))
             /\ Finish(h, "forbidden")

\* The policy is eligible; the PDF is generated from the copy.
\* Mutant: any stored policy is.
Generate_AnyStatus(h) ==
  /\ call[h].op = "attest" /\ Exists(h)
  /\ Step(h, "called", "upload")
  /\ read' = [read EXCEPT ![h] = Current(h)]
  /\ UNCHANGED <<objects, documents, key>>

Generate(h) ==
  /\ call[h].op = "attest" /\ Exists(h)
  /\ Eligible(call[h].policy, Current(h))
  /\ Step(h, "called", "upload")
  /\ read' = [read EXCEPT ![h] = Current(h)]
  /\ UNCHANGED <<objects, documents, key>>

\* Upload makes the key.
MakeKey(h) ==
  /\ Step(h, "upload", "put")
  /\ key' = [key EXCEPT ![h] = <<call[h].policy, second>>]
  /\ UNCHANGED <<objects, documents, read>>

\* PutObject replaces what was there.
\* Mutant: its error is not looked at.
Put_ErrorDropped(h) ==
  /\ Step(h, "put", "stored")
  /\ \/ UNCHANGED objects
     \/ objects' = [objects EXCEPT ![key[h]] =
                      [request |-> call[h].request, policy |-> call[h].policy,
                       version |-> read[h]]]
  /\ UNCHANGED <<documents, read, key>>

Put(h) ==
  /\ Step(h, "put", "stored")
  /\ objects' = [objects EXCEPT ![key[h]] =
                   [request |-> call[h].request, policy |-> call[h].policy,
                    version |-> read[h]]]
  /\ UNCHANGED <<documents, read, key>>

\* DocumentRepo.Create.
\* Mutant: the row is inserted without a fresh uuid.
Record_NilId(h) ==
  /\ Step(h, "stored", "recorded")
  /\ documents' = documents \cup
       {[request |-> 0, policy |-> call[h].policy, key |-> key[h]]}
  /\ UNCHANGED <<objects, read, key>>

Record(h) ==
  /\ Step(h, "stored", "recorded")
  /\ documents' = documents \cup
       {[request |-> call[h].request, policy |-> call[h].policy,
         key |-> key[h]]}
  /\ UNCHANGED <<objects, read, key>>

Answer(h) == pc[h] = "recorded" /\ Finish(h, "ok")

\* A step fails, its answer is lost (pc is already past it), presigning fails,
\* or the process dies.  Nothing is undone.
\* Mutant: an error after the upload is dropped, since there is a URL.
Fail_UrlIsEnough(h) ==
  /\ pc[h] # "idle"
  /\ Finish(h, IF pc[h] = "stored" THEN "ok" ELSE "error")

Fail(h) == pc[h] # "idle" /\ Finish(h, "error")

------------------------------------------------------------------------------
Next ==
  \/ \E p \in Policies : Change(p)
  \/ Tick
  \/ \E h \in Handlers :
       \/ Receive(h) \/ ReadMissing(h) \/ List(h) \/ Refuse(h)
       \/ Generate(h) \/ MakeKey(h) \/ Put(h) \/ Record(h) \/ Answer(h)
       \/ Fail(h)

Spec == Init /\ [][Next]_vars

------------------------------------------------------------------------------
\* What a document row points to is there, is an attestation of the policy of
\* the row, and shows that policy as it was when it was eligible, also when a
\* request of the same second has replaced the object (GenerateAttestation).
RecordedIsStored ==
  \A d \in documents :
    LET pdf == objects[d.key]
    IN  pdf # None /\ pdf.policy = d.policy /\ Eligible(d.policy, pdf.version)

\* An object that no row points to was left by a request that failed or is not
\* answered yet: a successful attestation can always be listed again.
OrphansHaveFailed ==
  \A k \in Keys :
    /\ objects[k] # None
    /\ \A d \in documents : d.key # k
    => outcome[objects[k].request] \in {"", "error"}

\* A handler that answers an attestation with success has a row of its own, and
\* the policy was eligible at some moment between the call and the answer, even
\* if it no longer is.
Granted(h) ==
  /\ \E d \in documents : d.request = call[h].request
  /\ \E v \in call[h].since .. Current(h) : v > 0 /\ Eligible(call[h].policy, v)

GrantedWhileEligible ==
  [][\A h \in Handlers :
       /\ call[h].op = "attest" /\ call'[h].op = ""
       /\ outcome'[call[h].request] = "ok"
       => Granted(h)]_vars

\* "attestation PDF on demand for ACTIVE policies; 7-year MinIO retention"
\* (docs/project-context.md:35): the PDF of a granted attestation stays.
ArchiveKept ==
  [][\A d \in documents :
       outcome[d.request] = "ok" => objects'[d.key] = objects[d.key]]_vars

==============================================================================
