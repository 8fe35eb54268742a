------------------------- MODULE FileObjectProofs --------------------------
(***************************************************************************)
(* Proofs of the safety of FileObject for any number of coroutines, files  *)
(* and descriptors.                                                        *)
(***************************************************************************)
EXTENDS FileObject, SequenceTheorems, TLAPS

-----------------------------------------------------------------------------
(* Requests. *)
OpenReqs == [op: Opening, file: Files, fd: Descs \cup {None},
             src: {None}, srcfd: {None}, st: Stages]
FileReqs == [op: OnFile, file: Files, fd: Descs,
             src: Files \cup {None}, srcfd: Descs \cup {None}, st: Stages]
PathReqs == [op: OnPath, file: {None}, fd: {None},
             src: {None}, srcfd: {None}, st: Stages]
Reqs == {NoReq} \cup OpenReqs \cup FileReqs \cup PathReqs
Wants ==
  {NoCall} \cup [op: Opening, file: Files, src: {None}]
           \cup [op: OnFile, file: Files, src: Files \cup {None}]
           \cup [op: OnPath, file: {None}, src: {None}]
CoStates == {"suspended", "running", "request", "deferred"}
Frames == [at: {"lua"}, co: Coros]

(* What is known of a request from its operation. *)
LEMMA ReqFields ==
  ASSUME NEW r \in Reqs
  PROVE  /\ r.op \in {"none"} \cup Opening \cup OnFile \cup OnPath
         /\ r.op = "none" => r = NoReq
         /\ r.op # "none" => r.st \in Stages
         /\ r.op \in Opening => r.file \in Files /\ r.fd \in Descs \cup {None}
         /\ r.op \in OnFile => r.file \in Files /\ r.fd \in Descs
         /\ r.op \notin Opening \cup OnFile => r.file = None /\ r.fd = None
         /\ r.op \notin OnFile => r.src = None /\ r.srcfd = None
         /\ r.src \in Files \cup {None} /\ r.srcfd \in Descs \cup {None}
  BY DEF Reqs, OpenReqs, FileReqs, PathReqs, NoReq, Opening, OnFile, OnPath

LEMMA NoReqFields ==
  /\ NoReq.op = "none" /\ NoReq.st = "none" /\ NoReq.file = None /\ NoReq.fd = None
  /\ NoReq.src = None /\ NoReq.srcfd = None
  BY DEF NoReq

(* A request goes to another stage, and an open gets a descriptor. *)
LEMMA StageReq ==
  ASSUME NEW r \in Reqs, r.op # "none", NEW s \in Stages
  PROVE  LET x == [r EXCEPT !.st = s]
         IN  /\ x \in Reqs
             /\ x.op = r.op /\ x.file = r.file /\ x.fd = r.fd /\ x.st = s
             /\ x.src = r.src /\ x.srcfd = r.srcfd
  BY DEF Reqs, OpenReqs, FileReqs, PathReqs, NoReq

LEMMA OpenedReq ==
  ASSUME NEW r \in Reqs, r.op \in Opening, NEW d \in Descs
  PROVE  LET x == [r EXCEPT !.fd = d, !.st = "done"]
         IN  /\ x \in Reqs
             /\ x.op = r.op /\ x.file = r.file /\ x.fd = d /\ x.st = "done"
             /\ x.src = r.src /\ x.srcfd = r.srcfd
  <1>1. r \in OpenReqs
    BY DEF Reqs, OpenReqs, FileReqs, PathReqs, NoReq, Opening, OnFile, OnPath
  <1>2. "done" \in Stages
    BY DEF Stages
  <1>3. LET x == [r EXCEPT !.fd = d, !.st = "done"]
        IN  /\ x \in OpenReqs
            /\ x.op = r.op /\ x.file = r.file /\ x.fd = d /\ x.st = "done"
            /\ x.src = r.src /\ x.srcfd = r.srcfd
    BY <1>1, <1>2 DEF OpenReqs
  <1>4. QED
    BY <1>3 DEF Reqs

(* What a coroutine that was called may request. *)
LEMMA WantFields ==
  ASSUME NEW w \in Wants
  PROVE  /\ w.op \in {"none"} \cup Opening \cup OnFile \cup OnPath
         /\ w.op = "none" => w = NoCall
         /\ w.op \in Opening \cup OnFile => w.file \in Files
         /\ w.op \notin Opening \cup OnFile => w.file = None
         /\ w.op \in OnFile => w.src \in Files \cup {None}
         /\ w.op \notin OnFile => w.src = None
  BY DEF Wants, NoCall, Opening, OnFile, OnPath

-----------------------------------------------------------------------------
(* The coroutines and the stack of calls. *)
Stacked == co \in [Coros -> CoStates] /\ stack \in Seq(Frames)

LEMMA EnterStacked ==
  ASSUME Stacked, NEW c \in Coros, Enter(c, stack)
  PROVE  Stacked'
  BY DEF Stacked, Enter, Lua, Frames, CoStates

LEMMA ExitStacked ==
  ASSUME Stacked, NEW c \in Coros, NEW k \in CoStates, Running(c), Exit(c, k)
  PROVE  Stacked'
  <1> DEFINE n == Len(stack) - 1
  <1>1. n \in Nat /\ stack' = SubSeq(stack, 1, n)
    BY DEF Idle, Stacked, Below, Running, Exit
  <1>2. \A i \in 1..n : stack[i] \in Frames
    BY DEF Stacked
  <1> HIDE DEF n
  <1>3. stack' \in Seq(Frames)
    BY <1>1, <1>2, SubSeqProperties
  <1>4. QED
    BY <1>3 DEF Stacked, Exit

LEMMA LuaStacked ==
  ASSUME Stacked, LuaNext
  PROVE  Stacked'
  <1>1. ASSUME NEW c \in Coros, Start(c)
        PROVE  Stacked'
    BY <1>1, EnterStacked DEF Start
  <1>2. ASSUME NEW c \in Coros, Yield(c)
        PROVE  Stacked'
    BY <1>2, ExitStacked DEF Yield, CoStates
  <1>3. ASSUME NEW c \in Coros, NEW d \in Coros, Resume(c, d)
        PROVE  Stacked'
    BY <1>3, EnterStacked DEF Resume
  <1>4. QED
    BY <1>1, <1>2, <1>3 DEF LuaNext

-----------------------------------------------------------------------------
(* The inductive invariant. *)
Types ==
  /\ Stacked
  /\ obj \in [Files -> {"none", "file", "closed"}]
  /\ desc \in [Files -> Descs \cup {None}]
  /\ os \in [Descs -> Files \cup {None}]
  /\ req \in [Coros -> Reqs]
  /\ want \in [Coros -> Wants]
  /\ failed \in BOOLEAN

(* An object has a descriptor while it is open. *)
Objects == \A f \in Files : obj[f] = "file" <=> desc[f] # None

(* An object is opened by a single request, done or to be done. *)
Fresh ==
  \A c, e \in Coros :
    /\ req[c].op \in Opening => obj[req[c].file] = "none"
    /\ want[c].op \in Opening => obj[want[c].file] = "none"
    /\ req[c].op \in Opening /\ want[e].op \in Opening => req[c].file # want[e].file
    /\ c # e /\ req[c].op \in Opening /\ req[e].op \in Opening => req[c].file # req[e].file
    /\ c # e /\ want[c].op \in Opening /\ want[e].op \in Opening => want[c].file # want[e].file

(* The request of c opened d, or will close it. *)
Holds(c, d) ==
  /\ req[c].fd = d
  /\ \/ req[c].op \in Opening /\ req[c].st = "done"
     \/ req[c].op = "close" /\ req[c].st = "queued"

(* A request that did not open a file has no descriptor for it, and only a *)
(* file is the source of a write.                                          *)
ReqOK(r) ==
  /\ r.op \in Opening /\ r.st # "done" => r.fd = None
  /\ r.srcfd # None => r.src \in Files
ReqsOK == \A c \in Coros : ReqOK(req[c])

(* Who holds a descriptor. *)
HeldByReqs ==
  /\ \A c \in Coros :
       req[c].op \in Opening /\ req[c].fd # None => os[req[c].fd] = req[c].file
  /\ \A c, e \in Coros : \A d \in Descs : Holds(c, d) =>
       /\ os[d] # None
       /\ \A f \in Files : desc[f] # d
       /\ Holds(e, d) => e = c
HeldByFiles == \A f \in Files : desc[f] # None => os[desc[f]] = f

(* The files whose use is awaited have the descriptors of the request. *)
Has(f, d) == obj[f] # "closed" => desc[f] = d
HasAll(r) == Has(r.file, r.fd) /\ (r.srcfd # None => Has(r.src, r.srcfd))
Using(c) == co[c] = "request" /\ req[c].op = "use" /\ req[c].st = "queued"
Awaiting == \A c \in Coros : Using(c) => HasAll(req[c])

(* What holds whatever fails, and what holds until a close in the calling  *)
(* thread fails.                                                           *)
Core == Types /\ Objects /\ Fresh /\ ReqsOK
Held == HeldByReqs /\ HeldByFiles /\ Awaiting
Inv == Core /\ (~failed => Held)

(* The coroutines other than c await what they awaited, or nothing. *)
OthersAwait(c) ==
  /\ Stacked'
  /\ \A e \in Coros : e # c => co'[e] = co[e] \/ co'[e] # "request"

LEMMA EnterOthers ==
  ASSUME Types, NEW c \in Coros, Enter(c, stack)
  PROVE  /\ \A e \in Coros : OthersAwait(e)
         /\ \A e \in Coros : co'[e] = co[e] \/ co'[e] # "request"
         /\ co'[c] = "running"
  <1>1. Stacked'
    BY EnterStacked DEF Types
  <1>2. QED
    BY <1>1 DEF Types, Stacked, Enter, OthersAwait

LEMMA ExitOthers ==
  ASSUME Types, NEW c \in Coros, NEW k \in CoStates, Running(c), Exit(c, k)
  PROVE  OthersAwait(c) /\ co'[c] = k
  <1>1. Stacked'
    BY ExitStacked DEF Types
  <1>2. QED
    BY <1>1 DEF Types, Stacked, Exit, OthersAwait

(* A step that changes only the request of c. *)
LEMMA ReqStep ==
  ASSUME Types, NEW c \in Coros, NEW r \in Reqs, req' = [req EXCEPT ![c] = r]
  PROVE  /\ req' \in [Coros -> Reqs]
         /\ req'[c] = r
         /\ \A e \in Coros : e # c => req'[e] = req[e]
  BY DEF Types

-----------------------------------------------------------------------------
(* A step that starts no use of a file, and keeps the descriptors of those *)
(* whose use is awaited.                                                   *)
SameUse(e) ==
  /\ Using(e)
  /\ req'[e].file = req[e].file /\ req'[e].fd = req[e].fd
  /\ req'[e].src = req[e].src /\ req'[e].srcfd = req[e].srcfd

LEMMA UsingFields ==
  ASSUME Core, NEW e \in Coros, Using(e)
  PROVE  /\ req[e].file \in Files /\ req[e].fd \in Descs
         /\ req[e].srcfd # None => req[e].src \in Files /\ req[e].srcfd \in Descs
  <1>1. req[e] \in Reqs /\ req[e].op \in OnFile
    BY DEF Core, Types, Using, OnFile
  <1>2. req[e].srcfd # None => req[e].src \in Files
    BY DEF Core, ReqsOK, ReqOK
  <1>3. QED
    BY <1>1, <1>2, ReqFields

LEMMA AwaitingKept ==
  ASSUME Core, Awaiting,
         \A e \in Coros : Using(e)' => SameUse(e),
         \A e \in Coros : \A g \in Files : \A d \in Descs :
           Using(e) /\ g \in {req[e].file, req[e].src} /\ Has(g, d) => Has(g, d)'
  PROVE  Awaiting'
  <1>1. ASSUME NEW e \in Coros, Using(e)'
        PROVE  HasAll(req[e])'
    <2>1. SameUse(e) /\ Using(e)
      BY <1>1 DEF SameUse
    <2>2. HasAll(req[e])
      BY <2>1 DEF Awaiting
    <2>3. /\ req[e].file \in Files /\ req[e].fd \in Descs
          /\ req[e].srcfd # None => req[e].src \in Files /\ req[e].srcfd \in Descs
      BY <2>1, UsingFields
    <2>4. Has(req[e].file, req[e].fd)'
      <3>1. \A d \in Descs :
              Has(req[e].file, d) /\ obj'[req[e].file] # "closed" => desc'[req[e].file] = d
        BY <2>1, <2>3 DEF Has
      <3>2. QED
        BY <2>1, <2>2, <2>3, <3>1 DEF HasAll, SameUse, Has
    <2>5. req'[e].srcfd # None => Has(req[e].src, req[e].srcfd)'
      <3>1. ASSUME req[e].srcfd # None
            PROVE  \A d \in Descs :
                     Has(req[e].src, d) /\ obj'[req[e].src] # "closed" => desc'[req[e].src] = d
        BY <2>1, <2>3, <3>1 DEF Has
      <3>2. QED
        BY <2>1, <2>2, <2>3, <3>1 DEF HasAll, SameUse, Has
    <2>6. QED
      BY <2>4, <2>5 DEF HasAll
  <1>2. QED
    BY <1>1 DEF Awaiting

(* The same, when objects do not change. *)
LEMMA AwaitingSame ==
  ASSUME Core, Awaiting, NEW c \in Coros, OthersAwait(c), ~Using(c)',
         \A e \in Coros : e # c => req'[e] = req[e],
         obj' = obj, desc' = desc
  PROVE  Awaiting'
  <1>1. \A e \in Coros : Using(e)' => SameUse(e)
    BY DEF Using, SameUse, OthersAwait
  <1>2. \A g : \A d : Has(g, d) => Has(g, d)'
    BY DEF Has
  <1>3. QED
    BY <1>1, <1>2, AwaitingKept

-----------------------------------------------------------------------------
(* A request that ended is forgotten, and with it the descriptor it opened. *)
LEMMA ReleaseKeeps ==
  ASSUME Inv, NEW c \in Coros, req[c].st # "queued",
         req' = [req EXCEPT ![c] = NoReq],
         want' \in [Coros -> Wants],
         \A e \in Coros : want'[e] = want[e] \/ want'[e] = NoCall,
         obj' = obj, desc' = desc, os' = os, failed' = failed,
         OthersAwait(c)
  PROVE  Inv'
  <1>0. Core
    BY DEF Inv
  <1>1. Types
    BY <1>0 DEF Core
  <1>2. NoReq \in Reqs
    BY DEF Reqs
  <1>3. /\ req' \in [Coros -> Reqs] /\ req'[c] = NoReq
        /\ \A e \in Coros : e # c => req'[e] = req[e]
    BY <1>1, <1>2, ReqStep
  <1>4. NoReq.op \notin Opening /\ NoReq.op # "close" /\ NoReq.op # "use"
        /\ NoReq.srcfd = None /\ NoCall.op \notin Opening
    BY DEF NoReq, NoCall, Opening
  <1>5. Types'
    BY <1>1, <1>3 DEF Types, OthersAwait
  <1>6. Objects'
    BY <1>0 DEF Core, Objects
  <1>7. Fresh'
    BY <1>0, <1>3, <1>4 DEF Core, Fresh
  <1>8. ReqsOK'
    BY <1>0, <1>3, <1>4 DEF Core, ReqsOK, ReqOK
  <1>9. ASSUME ~failed'
        PROVE  Held'
    <2>0. Core /\ Held
      BY <1>9 DEF Inv
    <2>1. /\ \A e \in Coros : \A d : e # c => (Holds(e, d)' <=> Holds(e, d))
          /\ \A d : ~Holds(c, d)'
      BY <1>3, <1>4 DEF Holds
    <2>2. HeldByReqs'
      <3>1. \A e \in Coros :
              req'[e].op \in Opening /\ req'[e].fd # None => os'[req'[e].fd] = req'[e].file
        BY <2>0, <1>3, <1>4 DEF Held, HeldByReqs
      <3>2. \A e, x \in Coros : \A d \in Descs : Holds(e, d)' =>
              /\ os'[d] # None
              /\ \A f \in Files : desc'[f] # d
              /\ Holds(x, d)' => x = e
        BY <2>0, <2>1 DEF Held, HeldByReqs
      <3>3. QED
        BY <3>1, <3>2 DEF HeldByReqs
    <2>3. HeldByFiles'
      BY <2>0 DEF Held, HeldByFiles
    <2>4. Awaiting'
      BY <2>0, <1>3, <1>4, AwaitingSame DEF Held, Using
    <2>5. QED
      BY <2>2, <2>3, <2>4 DEF Held
  <1>10. QED
    BY <1>5, <1>6, <1>7, <1>8, <1>9 DEF Inv, Core

-----------------------------------------------------------------------------
(* A request is set up, in the place of one that ended. *)
Callable(op, f, src) ==
  \/ op \in Opening /\ f \in Files /\ src = None
  \/ op \in OnFile /\ f \in Files /\ src \in Files \cup {None}
  \/ op \in OnPath /\ f = None /\ src = None

LEMMA RequestFields ==
  ASSUME Types, NEW op, NEW f, NEW src, Callable(op, f, src), ~SetupFails(op, f)
  PROVE  LET r == Request(op, f, src)
         IN  /\ r \in Reqs /\ r.op = op /\ r.file = f /\ r.st = "queued"
             /\ r.fd = IF op \in OnFile THEN desc[f] ELSE None
             /\ r.src = src /\ r.srcfd = IF src \in Files THEN desc[src] ELSE None
             /\ ReqOK(r)
  <1>1. op \in OnFile => f \in Files /\ desc[f] \in Descs
    BY DEF Callable, SetupFails, Types, Opening, OnFile, OnPath
  <1>2. Request(op, f, src) \in Reqs
    <2>1. CASE op \in Opening
      BY <2>1, FilesAssumption
         DEF Request, Callable, Reqs, OpenReqs, Opening, OnFile, OnPath, Stages
    <2>2. CASE op \in OnFile
      <3>1. src \in Files \cup {None}
            /\ (IF src \in Files THEN desc[src] ELSE None) \in Descs \cup {None}
        BY <2>2 DEF Callable, Types, Opening, OnFile, OnPath
      <3>2. QED
        BY <1>1, <2>2, <3>1 DEF Request, Reqs, FileReqs, Stages
    <2>3. CASE op \in OnPath
      BY <2>3, FilesAssumption
         DEF Request, Callable, Reqs, PathReqs, Opening, OnFile, OnPath, Stages
    <2>4. QED
      BY <2>1, <2>2, <2>3 DEF Callable
  <1>3. op \in Opening => op \notin OnFile
    BY DEF Opening, OnFile
  <1>4. QED
    BY <1>2, <1>3 DEF Request, ReqOK

LEMMA SetupKeeps ==
  ASSUME Inv, NEW c \in Coros, NEW op, NEW f, NEW src,
         Callable(op, f, src), Setup(c, op, f, src),
         req[c].st # "queued",
         want' \in [Coros -> Wants],
         \A e \in Coros : want'[e] = want[e] \/ want'[e] = NoCall,
         op \in Opening =>
           /\ obj[f] = "none"
           /\ \A e \in Coros : /\ e # c /\ req[e].op \in Opening => req[e].file # f
                               /\ want'[e].op \in Opening => want'[e].file # f,
         os' = os, failed' = failed, OthersAwait(c)
  PROVE  Inv'
  <1> DEFINE r == Request(op, f, src)
  <1>0. Core
    BY DEF Inv
  <1>1. Types /\ ~SetupFails(op, f)
    BY <1>0 DEF Core, Setup
  <1>2. /\ r \in Reqs /\ r.op = op /\ r.file = f /\ r.st = "queued"
        /\ r.fd = IF op \in OnFile THEN desc[f] ELSE None
        /\ r.src = src /\ r.srcfd = IF src \in Files THEN desc[src] ELSE None
        /\ ReqOK(r)
    BY <1>1, RequestFields
  <1>3. req' = [req EXCEPT ![c] = r]
    BY DEF Setup
  <1> HIDE DEF r
  <1>4. /\ req' \in [Coros -> Reqs] /\ req'[c] = r
        /\ \A e \in Coros : e # c => req'[e] = req[e]
    BY <1>1, <1>2, <1>3, ReqStep
  <1>5. NoCall.op \notin Opening /\ Opening \cap OnFile = {} /\ "close" \in OnFile
        /\ "use" \in OnFile /\ "use" # "close"
    BY DEF NoCall, Opening, OnFile
  <1>6. op \in OnFile => f \in Files /\ desc[f] \in Descs
    BY <1>1 DEF Callable, SetupFails, Types, Opening, OnFile, OnPath
  <1>7. \/ op = "close" /\ f \in Files /\ desc' = [desc EXCEPT ![f] = None]
             /\ obj' = [obj EXCEPT ![f] = "closed"]
        \/ op # "close" /\ desc' = desc /\ obj' = obj
    BY <1>5, <1>6 DEF Setup
  <1>8. /\ \A x \in Files : op # "close" \/ x # f => desc'[x] = desc[x] /\ obj'[x] = obj[x]
        /\ op = "close" => f \in Files /\ desc'[f] = None /\ obj'[f] = "closed"
        /\ desc' \in [Files -> Descs \cup {None}]
        /\ obj' \in [Files -> {"none", "file", "closed"}]
    BY <1>1, <1>7 DEF Types
  <1>9. Types'
    BY <1>1, <1>4, <1>8 DEF Types, OthersAwait
  <1>10. Objects'
    BY <1>0, <1>8 DEF Core, Objects
  <1>11. op = "close" => obj[f] = "file" /\ desc[f] \in Descs
    BY <1>0, <1>5, <1>6, FilesAssumption DEF Core, Objects
  <1>12. Fresh'
    <2>1. \A e \in Coros : req[e].op \in Opening => req[e].file \in Files
      BY <1>1, ReqFields DEF Types
    <2>2. \A e \in Coros : want[e].op \in Opening => want[e].file \in Files
      BY <1>1, WantFields DEF Types
    <2>3. \A x \in Files : obj[x] = "none" => obj'[x] = "none"
      BY <1>8, <1>11
    <2>4. op \in Opening => f \in Files
      BY DEF Callable, Opening, OnPath
    <2>5. QED
      BY <1>0, <1>2, <1>4, <1>5, <2>1, <2>2, <2>3, <2>4 DEF Core, Fresh
  <1>13. ReqsOK'
    BY <1>0, <1>2, <1>4 DEF Core, ReqsOK, ReqOK
  <1>14. ASSUME ~failed'
         PROVE  Held'
    <2>0. Core /\ Held
      BY <1>14 DEF Inv
    <2>1. /\ \A e \in Coros : \A d : e # c => (Holds(e, d)' <=> Holds(e, d))
          /\ \A d : Holds(c, d)' <=> op = "close" /\ d = desc[f]
      BY <1>2, <1>4, <1>5 DEF Holds
    <2>2. HeldByReqs'
      <3>1. \A e \in Coros :
              req'[e].op \in Opening /\ req'[e].fd # None => os'[req'[e].fd] = req'[e].file
        BY <2>0, <1>2, <1>4, <1>5 DEF Held, HeldByReqs
      <3>2. ASSUME NEW e \in Coros, NEW d \in Descs, Holds(e, d)', e # c
            PROVE  /\ os'[d] # None
                   /\ \A x \in Files : desc'[x] # d
                   /\ \A x \in Coros : Holds(x, d)' => x = e
        <4>1. Holds(e, d)
          BY <2>1, <3>2
        <4>2. os[d] # None /\ (\A x \in Files : desc[x] # d)
              /\ (\A x \in Coros : Holds(x, d) => x = e)
          BY <2>0, <4>1 DEF Held, HeldByReqs
        <4>3. \A x \in Files : desc'[x] # d
          BY <1>8, <4>2, FilesAssumption
        <4>4. ~Holds(c, d)'
          BY <2>1, <1>7, <4>2
        <4>5. QED
          BY <2>1, <4>2, <4>3, <4>4
      <3>3. ASSUME NEW d \in Descs, Holds(c, d)'
            PROVE  /\ os'[d] # None
                   /\ \A x \in Files : desc'[x] # d
                   /\ \A x \in Coros : Holds(x, d)' => x = c
        <4>1. op = "close" /\ f \in Files /\ desc[f] = d
          BY <2>1, <1>7, <3>3
        <4>2. os[d] = f
          BY <2>0, <4>1, FilesAssumption DEF Held, HeldByFiles
        <4>3. \A x \in Files : desc[x] = d => x = f
          BY <2>0, <4>2, FilesAssumption DEF Held, HeldByFiles
        <4>4. \A x \in Coros : ~Holds(x, d)
          BY <2>0, <4>1 DEF Held, HeldByReqs
        <4>5. os'[d] # None
          BY <4>1, <4>2, FilesAssumption
        <4>6. \A x \in Files : desc'[x] # d
          BY <1>8, <4>1, <4>3, FilesAssumption
        <4>7. QED
          BY <2>1, <4>4, <4>5, <4>6
      <3>4. QED
        BY <3>1, <3>2, <3>3 DEF HeldByReqs
    <2>3. HeldByFiles'
      BY <2>0, <1>8 DEF Held, HeldByFiles
    <2>4. Awaiting'
      <3>1. \A g \in Files : \A d : Has(g, d) => Has(g, d)'
        BY <1>8 DEF Has
      <3>2. CASE op # "use"
        <4>1. \A e \in Coros : Using(e)' => SameUse(e)
          BY <1>2, <1>4, <3>2 DEF Using, SameUse, OthersAwait
        <4>2. QED
          BY <2>0, <3>1, <4>1, AwaitingKept DEF Held
      <3>3. CASE op = "use"
        <4>1. desc' = desc /\ obj' = obj
          BY <1>5, <1>7, <3>3
        <4>2. ASSUME NEW e \in Coros, Using(e)'
              PROVE  HasAll(req[e])'
          <5>1. CASE e = c
            BY <1>2, <1>4, <1>5, <3>3, <4>1, <5>1 DEF HasAll, Has
          <5>2. CASE e # c
            <6>1. Using(e) /\ req'[e] = req[e]
              BY <1>4, <4>2, <5>2 DEF Using, OthersAwait
            <6>2. HasAll(req[e])
              BY <2>0, <6>1 DEF Held, Awaiting
            <6>3. QED
              BY <4>1, <6>1, <6>2 DEF HasAll, Has
          <5>3. QED
            BY <5>1, <5>2
        <4>3. QED
          BY <4>2 DEF Awaiting
      <3>4. QED
        BY <3>2, <3>3
    <2>5. QED
      BY <2>2, <2>3, <2>4 DEF Held
  <1>15. QED
    BY <1>9, <1>10, <1>12, <1>13, <1>14 DEF Inv, Core

-----------------------------------------------------------------------------
(* The request of c, that no thread had started, goes on without changing  *)
(* who has descriptors.                                                    *)
LEMMA StageKeeps ==
  ASSUME Inv, NEW c \in Coros, req[c].st = "queued", req[c].op # "close",
         NEW t \in {"done", "canceled"}, req' = [req EXCEPT ![c].st = t],
         obj' = obj, desc' = desc, os' = os, want' = want, failed' = failed,
         OthersAwait(c)
  PROVE  Inv'
  <1> DEFINE r == [req[c] EXCEPT !.st = t]
  <1>0. Core
    BY DEF Inv
  <1>1. Types /\ req[c] \in Reqs /\ req[c].op # "none"
    <2>1. Types /\ req[c] \in Reqs
      BY <1>0 DEF Core, Types
    <2>2. req[c] # NoReq
      BY NoReqFields
    <2>3. QED
      BY <2>1, <2>2, ReqFields
  <1>2. /\ r \in Reqs /\ r.op = req[c].op /\ r.file = req[c].file /\ r.fd = req[c].fd
        /\ r.st = t /\ r.src = req[c].src /\ r.srcfd = req[c].srcfd
    <2>1. t \in Stages
      BY DEF Stages
    <2>2. QED
      BY <1>1, <2>1, StageReq
  <1>3. req' = [req EXCEPT ![c] = r]
    BY <1>1 DEF Types
  <1> HIDE DEF r
  <1>4. /\ req' \in [Coros -> Reqs] /\ req'[c] = r
        /\ \A e \in Coros : e # c => req'[e] = req[e]
    BY <1>1, <1>2, <1>3, ReqStep
  <1>5. req[c].op \in Opening => req[c].fd = None
    BY <1>0 DEF Core, ReqsOK, ReqOK
  <1>6. Types'
    BY <1>1, <1>4 DEF Types, OthersAwait
  <1>7. Objects'
    BY <1>0 DEF Core, Objects
  <1>8. Fresh'
    BY <1>0, <1>2, <1>4 DEF Core, Fresh
  <1>9. ReqsOK'
    BY <1>0, <1>2, <1>4, <1>5 DEF Core, ReqsOK, ReqOK
  <1>10. ASSUME ~failed'
         PROVE  Held'
    <2>0. Core /\ Held
      BY <1>10 DEF Inv
    <2>1. \A e \in Coros : \A d \in Descs : Holds(e, d)' <=> Holds(e, d)
      BY <1>2, <1>4, <1>5, FilesAssumption DEF Holds
    <2>2. HeldByReqs'
      <3>1. \A e \in Coros :
              req'[e].op \in Opening /\ req'[e].fd # None => os'[req'[e].fd] = req'[e].file
        BY <2>0, <1>2, <1>4, <1>5 DEF Held, HeldByReqs
      <3>2. \A e, x \in Coros : \A d \in Descs : Holds(e, d)' =>
              /\ os'[d] # None
              /\ \A f \in Files : desc'[f] # d
              /\ Holds(x, d)' => x = e
        BY <2>0, <2>1 DEF Held, HeldByReqs
      <3>3. QED
        BY <3>1, <3>2 DEF HeldByReqs
    <2>3. HeldByFiles'
      BY <2>0 DEF Held, HeldByFiles
    <2>4. Awaiting'
      BY <2>0, <1>2, <1>4, AwaitingSame DEF Held, Using
    <2>5. QED
      BY <2>2, <2>3, <2>4 DEF Held
  <1>11. QED
    BY <1>6, <1>7, <1>8, <1>9, <1>10 DEF Inv, Core

(* The request to close, that no thread had started, closes its descriptor *)
(* (in a thread), or is canceled and leaves it open.                       *)
LEMMA CloseStageKeeps ==
  ASSUME Inv, NEW c \in Coros, req[c].st = "queued", req[c].op = "close",
         NEW t \in {"done", "canceled"}, req' = [req EXCEPT ![c].st = t],
         obj' = obj, desc' = desc, want' = want, failed' = failed,
         os' = os \/ os' = [os EXCEPT ![req[c].fd] = None],
         OthersAwait(c)
  PROVE  Inv'
  <1> DEFINE r == [req[c] EXCEPT !.st = t]
             fd == req[c].fd
  <1>0. Core
    BY DEF Inv
  <1>1. Types /\ req[c] \in Reqs /\ fd \in Descs
    BY <1>0, ReqFields DEF Core, Types, OnFile
  <1>2. r \in Reqs /\ r.op = "close" /\ r.st = t /\ r.src = req[c].src /\ r.srcfd = req[c].srcfd
    <2>1. t \in Stages /\ req[c].op # "none"
      BY DEF Stages
    <2>2. r \in Reqs /\ r.op = req[c].op /\ r.st = t /\ r.src = req[c].src /\ r.srcfd = req[c].srcfd
      BY <1>1, <2>1, StageReq
    <2>3. QED
      BY <2>2
  <1>3. req' = [req EXCEPT ![c] = r]
    BY <1>1 DEF Types
  <1>4. Holds(c, fd)
    BY DEF Holds
  <1>o. /\ \A d \in Descs : d # fd => os'[d] = os[d]
        /\ os' \in [Descs -> Files \cup {None}]
    BY <1>1 DEF Types
  <1> HIDE DEF r, fd
  <1>5. /\ req' \in [Coros -> Reqs] /\ req'[c] = r
        /\ \A e \in Coros : e # c => req'[e] = req[e]
    BY <1>1, <1>2, <1>3, ReqStep
  <1>6. "close" \notin Opening /\ "close" # "use"
    BY DEF Opening
  <1>7. Types'
    BY <1>1, <1>5, <1>o DEF Types, OthersAwait
  <1>8. Objects'
    BY <1>0 DEF Core, Objects
  <1>9. Fresh'
    BY <1>0, <1>2, <1>5, <1>6 DEF Core, Fresh
  <1>10. ReqsOK'
    BY <1>0, <1>2, <1>5, <1>6 DEF Core, ReqsOK, ReqOK
  <1>11. ASSUME ~failed'
         PROVE  Held'
    <2>0. Core /\ Held
      BY <1>11 DEF Inv
    <2>1. /\ \A e \in Coros : \A d : e # c => (Holds(e, d)' <=> Holds(e, d))
          /\ \A d : ~Holds(c, d)'
      BY <1>2, <1>5, <1>6 DEF Holds
    <2>2. /\ \A e \in Coros : e # c => ~Holds(e, fd)
          /\ \A f \in Files : desc[f] # fd
      BY <2>0, <1>1, <1>4 DEF Held, HeldByReqs
    <2>3. HeldByReqs'
      <3>1. ASSUME NEW e \in Coros, req'[e].op \in Opening, req'[e].fd # None
            PROVE  os'[req'[e].fd] = req'[e].file
        <4>1. e # c /\ req'[e] = req[e]
          BY <1>2, <1>5, <1>6, <3>1
        <4>2. os[req[e].fd] = req[e].file
          BY <2>0, <3>1, <4>1 DEF Held, HeldByReqs
        <4>3. req[e].fd \in Descs /\ req[e].st = "done"
          BY <1>0, <1>1, <3>1, <4>1, ReqFields DEF Core, Types, ReqsOK, ReqOK
        <4>4. req[e].fd # fd
          BY <2>2, <3>1, <4>1, <4>3 DEF Holds
        <4>5. QED
          BY <1>o, <4>1, <4>2, <4>3, <4>4
      <3>2. \A e, x \in Coros : \A d \in Descs : Holds(e, d)' =>
              /\ os'[d] # None
              /\ \A f \in Files : desc'[f] # d
              /\ Holds(x, d)' => x = e
        BY <2>0, <2>1, <1>o, <2>2 DEF Held, HeldByReqs
      <3>3. QED
        BY <3>1, <3>2 DEF HeldByReqs
    <2>4. HeldByFiles'
      BY <2>0, <1>1, <1>o, <2>2 DEF Held, HeldByFiles, Types
    <2>5. Awaiting'
      BY <2>0, <1>2, <1>5, <1>6, AwaitingSame DEF Held, Using
    <2>6. QED
      BY <2>3, <2>4, <2>5 DEF Held
  <1>12. QED
    BY <1>7, <1>8, <1>9, <1>10, <1>11 DEF Inv, Core

(* A thread opens a file, with a descriptor that is not in use. *)
LEMMA OpenKeeps ==
  ASSUME Inv, NEW c \in Coros, req[c].st = "queued", req[c].op \in Opening,
         NEW d \in Descs, os[d] = None, os' = [os EXCEPT ![d] = req[c].file],
         req' = [req EXCEPT ![c].fd = d, ![c].st = "done"],
         obj' = obj, desc' = desc, want' = want, failed' = failed, OthersAwait(c)
  PROVE  Inv'
  <1> DEFINE r == [req[c] EXCEPT !.fd = d, !.st = "done"]
  <1>0. Core
    BY DEF Inv
  <1>1. Types /\ req[c] \in Reqs /\ req[c].file \in Files
    BY <1>0, ReqFields DEF Core, Types
  <1>2. /\ r \in Reqs /\ r.op = req[c].op /\ r.file = req[c].file
        /\ r.fd = d /\ r.st = "done" /\ r.src = req[c].src /\ r.srcfd = req[c].srcfd
    BY <1>1, OpenedReq
  <1>3. req' = [req EXCEPT ![c] = r]
    BY <1>1 DEF Types
  <1> HIDE DEF r
  <1>4. /\ req' \in [Coros -> Reqs] /\ req'[c] = r
        /\ \A e \in Coros : e # c => req'[e] = req[e]
    BY <1>1, <1>2, <1>3, ReqStep
  <1>5. req[c].fd = None /\ "use" \notin Opening /\ "close" \notin Opening
    BY <1>0 DEF Core, ReqsOK, ReqOK, Opening
  <1>o. /\ \A x \in Descs : x # d => os'[x] = os[x]
        /\ os'[d] = req[c].file /\ os'[d] # None
        /\ os' \in [Descs -> Files \cup {None}]
    BY <1>1, FilesAssumption DEF Types
  <1>6. Types'
    BY <1>1, <1>4, <1>o DEF Types, OthersAwait
  <1>7. Objects'
    BY <1>0 DEF Core, Objects
  <1>8. Fresh'
    BY <1>0, <1>2, <1>4 DEF Core, Fresh
  <1>9. ReqsOK'
    BY <1>0, <1>2, <1>4 DEF Core, ReqsOK, ReqOK
  <1>10. ASSUME ~failed'
         PROVE  Held'
    <2>0. Core /\ Held
      BY <1>10 DEF Inv
    <2>1. /\ \A e \in Coros : \A x : e # c => (Holds(e, x)' <=> Holds(e, x))
          /\ \A x : Holds(c, x)' <=> x = d
          /\ \A x \in Descs : ~Holds(c, x)
      BY <1>2, <1>4, <1>5, FilesAssumption DEF Holds
    <2>2. /\ \A f \in Files : desc[f] # d
          /\ \A e \in Coros : ~Holds(e, d)
      BY <2>0, FilesAssumption DEF Held, HeldByFiles, HeldByReqs
    <2>3. HeldByReqs'
      <3>1. ASSUME NEW e \in Coros, req'[e].op \in Opening, req'[e].fd # None
            PROVE  os'[req'[e].fd] = req'[e].file
        <4>1. CASE e = c
          BY <1>2, <1>4, <1>o, <4>1
        <4>2. CASE e # c
          <5>1. req'[e] = req[e]
            BY <1>4, <4>2
          <5>2. os[req[e].fd] = req[e].file
            BY <2>0, <3>1, <5>1 DEF Held, HeldByReqs
          <5>3. req[e].fd \in Descs /\ req[e].st = "done"
            BY <1>0, <1>1, <3>1, <5>1, ReqFields DEF Core, Types, ReqsOK, ReqOK
          <5>4. req[e].fd # d
            BY <2>2, <3>1, <5>1, <5>3 DEF Holds
          <5>5. QED
            BY <1>o, <5>1, <5>2, <5>3, <5>4
        <4>3. QED
          BY <4>1, <4>2
      <3>2. \A e, x \in Coros : \A y \in Descs : Holds(e, y)' =>
              /\ os'[y] # None
              /\ \A f \in Files : desc'[f] # y
              /\ Holds(x, y)' => x = e
        BY <2>0, <2>1, <1>o, <2>2 DEF Held, HeldByReqs
      <3>3. QED
        BY <3>1, <3>2 DEF HeldByReqs
    <2>4. HeldByFiles'
      BY <2>0, <1>1, <1>o, <2>2 DEF Held, HeldByFiles, Types
    <2>5. Awaiting'
      BY <2>0, <1>2, <1>4, <1>5, AwaitingSame DEF Held, Using
    <2>6. QED
      BY <2>3, <2>4, <2>5 DEF Held
  <1>11. QED
    BY <1>6, <1>7, <1>8, <1>9, <1>10 DEF Inv, Core

-----------------------------------------------------------------------------
(* The callback gives the descriptor to the object it opened. *)
LEMMA CompletedKeeps ==
  ASSUME Inv, NEW c \in Coros, req[c].op \in Opening, req[c].fd # None,
         desc' = [desc EXCEPT ![req[c].file] = req[c].fd],
         obj' = [obj EXCEPT ![req[c].file] = "file"],
         req' = [req EXCEPT ![c] = NoReq],
         os' = os, want' = want, failed' = failed, OthersAwait(c)
  PROVE  Inv'
  <1> DEFINE f == req[c].file
             d == req[c].fd
  <1>0. Core
    BY DEF Inv
  <1>1. Types /\ f \in Files /\ d \in Descs /\ NoReq \in Reqs
    BY <1>0, ReqFields DEF Core, Types, Reqs
  <1>2. Holds(c, d)
    BY <1>0 DEF Core, ReqsOK, ReqOK, Holds
  <1>3. obj[f] = "none" /\ desc[f] = None
    BY <1>0, <1>1 DEF Core, Fresh, Objects
  <1>4. /\ \A e \in Coros : e # c /\ req[e].op \in Opening => req[e].file # f
        /\ \A e \in Coros : want[e].op \in Opening => want[e].file # f
    BY <1>0 DEF Core, Fresh
  <1>5. /\ req' \in [Coros -> Reqs] /\ req'[c] = NoReq
        /\ \A e \in Coros : e # c => req'[e] = req[e]
    BY <1>1, ReqStep
  <1>6. /\ desc'[f] = d /\ obj'[f] = "file"
        /\ \A x \in Files : x # f => desc'[x] = desc[x] /\ obj'[x] = obj[x]
        /\ desc' \in [Files -> Descs \cup {None}]
        /\ obj' \in [Files -> {"none", "file", "closed"}]
    BY <1>1 DEF Types
  <1>7. NoReq.op \notin Opening /\ NoReq.op # "close" /\ NoReq.op # "use"
        /\ NoReq.srcfd = None
    BY DEF NoReq, Opening
  <1>w. ~failed => os[d] = f
    BY DEF Inv, Held, HeldByReqs
  <1> HIDE DEF f, d
  <1>8. Types'
    BY <1>1, <1>5, <1>6 DEF Types, OthersAwait
  <1>9. Objects'
    BY <1>0, <1>1, <1>6, FilesAssumption DEF Core, Objects
  <1>10. Fresh'
    <2>1. \A e \in Coros : req[e].op \in Opening => req[e].file \in Files
      BY <1>1, ReqFields DEF Types
    <2>2. \A e \in Coros : want[e].op \in Opening => want[e].file \in Files
      BY <1>1, WantFields DEF Types
    <2>3. QED
      BY <1>0, <1>4, <1>5, <1>6, <1>7, <2>1, <2>2 DEF Core, Fresh
  <1>11. ReqsOK'
    BY <1>0, <1>5, <1>7 DEF Core, ReqsOK, ReqOK
  <1>12. ASSUME ~failed'
         PROVE  Held'
    <2>0. Core /\ Held /\ os[d] = f
      BY <1>12, <1>w DEF Inv
    <2>1. /\ \A e \in Coros : \A x : e # c => (Holds(e, x)' <=> Holds(e, x))
          /\ \A x : ~Holds(c, x)'
      BY <1>5, <1>7 DEF Holds
    <2>2. HeldByReqs'
      <3>1. \A e \in Coros :
              req'[e].op \in Opening /\ req'[e].fd # None => os'[req'[e].fd] = req'[e].file
        BY <2>0, <1>5, <1>7 DEF Held, HeldByReqs
      <3>2. ASSUME NEW e \in Coros, NEW x \in Descs, Holds(e, x)'
            PROVE  /\ os'[x] # None
                   /\ \A g \in Files : desc'[g] # x
                   /\ \A y \in Coros : Holds(y, x)' => y = e
        <4>1. e # c /\ Holds(e, x)
          BY <2>1, <3>2
        <4>2. /\ os[x] # None
              /\ \A g \in Files : desc[g] # x
              /\ \A y \in Coros : Holds(y, x) => y = e
          BY <2>0, <4>1 DEF Held, HeldByReqs
        <4>3. x # d
          BY <1>2, <4>1, <4>2
        <4>4. QED
          BY <2>1, <1>6, <4>2, <4>3
      <3>3. QED
        BY <3>1, <3>2 DEF HeldByReqs
    <2>3. HeldByFiles'
      BY <2>0, <1>1, <1>6 DEF Held, HeldByFiles
    <2>4. Awaiting'
      <3>1. \A g \in Files : \A x \in Descs : Has(g, x) => Has(g, x)'
        BY <1>1, <1>3, <1>6, FilesAssumption DEF Has
      <3>2. \A e \in Coros : Using(e)' => SameUse(e)
        BY <1>5, <1>7 DEF Using, SameUse, OthersAwait
      <3>3. QED
        BY <2>0, <3>1, <3>2, AwaitingKept DEF Held
    <2>5. QED
      BY <2>2, <2>3, <2>4 DEF Held
  <1>13. QED
    BY <1>8, <1>9, <1>10, <1>11, <1>12 DEF Inv, Core

(* The callback of system.maketemp closes the file it does not return. *)
LEMMA TempKeeps ==
  ASSUME Inv, NEW c \in Coros, req[c].op \in Opening, req[c].fd # None,
         os' = [os EXCEPT ![req[c].fd] = None],
         req' = [req EXCEPT ![c] = NoReq],
         obj' = obj, desc' = desc, want' = want, failed' = failed, OthersAwait(c)
  PROVE  Inv'
  <1> DEFINE d == req[c].fd
  <1>0. Core
    BY DEF Inv
  <1>1. Types /\ d \in Descs /\ NoReq \in Reqs
    BY <1>0, ReqFields DEF Core, Types, Reqs
  <1>2. Holds(c, d)
    BY <1>0 DEF Core, ReqsOK, ReqOK, Holds
  <1>3. /\ req' \in [Coros -> Reqs] /\ req'[c] = NoReq
        /\ \A e \in Coros : e # c => req'[e] = req[e]
    BY <1>1, ReqStep
  <1>4. /\ os'[d] = None /\ \A x \in Descs : x # d => os'[x] = os[x]
        /\ os' \in [Descs -> Files \cup {None}]
    BY <1>1 DEF Types
  <1>5. NoReq.op \notin Opening /\ NoReq.op # "close" /\ NoReq.op # "use"
        /\ NoReq.srcfd = None
    BY DEF NoReq, Opening
  <1> HIDE DEF d
  <1>6. Types'
    BY <1>1, <1>3, <1>4 DEF Types, OthersAwait
  <1>7. Objects'
    BY <1>0 DEF Core, Objects
  <1>8. Fresh'
    BY <1>0, <1>3, <1>5 DEF Core, Fresh
  <1>9. ReqsOK'
    BY <1>0, <1>3, <1>5 DEF Core, ReqsOK, ReqOK
  <1>10. ASSUME ~failed'
         PROVE  Held'
    <2>0. Core /\ Held
      BY <1>10 DEF Inv
    <2>1. /\ \A e \in Coros : \A x : e # c => (Holds(e, x)' <=> Holds(e, x))
          /\ \A x : ~Holds(c, x)'
      BY <1>3, <1>5 DEF Holds
    <2>2. /\ \A f \in Files : desc[f] # d
          /\ \A e \in Coros : e # c => ~Holds(e, d)
      BY <2>0, <1>1, <1>2 DEF Held, HeldByReqs
    <2>3. HeldByReqs'
      <3>1. ASSUME NEW e \in Coros, req'[e].op \in Opening, req'[e].fd # None
            PROVE  os'[req'[e].fd] = req'[e].file
        <4>1. e # c /\ req'[e] = req[e]
          BY <1>3, <1>5, <3>1
        <4>2. os[req[e].fd] = req[e].file
          BY <2>0, <3>1, <4>1 DEF Held, HeldByReqs
        <4>3. req[e].fd \in Descs /\ req[e].st = "done"
          BY <1>0, <1>1, <3>1, <4>1, ReqFields DEF Core, Types, ReqsOK, ReqOK
        <4>4. req[e].fd # d
          BY <2>2, <3>1, <4>1, <4>3 DEF Holds
        <4>5. QED
          BY <1>4, <4>1, <4>2, <4>3, <4>4
      <3>2. \A e, x \in Coros : \A y \in Descs : Holds(e, y)' =>
              /\ os'[y] # None
              /\ \A f \in Files : desc'[f] # y
              /\ Holds(x, y)' => x = e
        BY <2>0, <2>1, <1>4, <2>2 DEF Held, HeldByReqs
      <3>3. QED
        BY <3>1, <3>2 DEF HeldByReqs
    <2>4. HeldByFiles'
      BY <2>0, <1>1, <1>4, <2>2 DEF Held, HeldByFiles, Types
    <2>5. Awaiting'
      BY <2>0, <1>3, <1>5, AwaitingSame DEF Held, Using
    <2>6. QED
      BY <2>3, <2>4, <2>5 DEF Held
  <1>11. QED
    BY <1>6, <1>7, <1>8, <1>9, <1>10 DEF Inv, Core

-----------------------------------------------------------------------------
(* A file is opened in the calling thread. *)
LEMMA OpenBlockingKeeps ==
  ASSUME Inv, NEW c \in Coros, NEW f \in Files, OpenBlocking(c, f)
  PROVE  Inv'
  <1>0. Core
    BY DEF Inv
  <1>1. PICK d \in Descs : /\ os[d] = None
                           /\ os' = [os EXCEPT ![d] = f] /\ desc' = [desc EXCEPT ![f] = d]
    BY DEF OpenBlocking
  <1>2. /\ obj' = [obj EXCEPT ![f] = "file"]
        /\ req' = req /\ want' = want /\ failed' = failed /\ co' = co /\ stack' = stack
    BY DEF OpenBlocking, threadVars
  <1>3. obj[f] = "none" /\ \A e \in Coros : req[e].file # f /\ want[e].file # f
    BY DEF OpenBlocking, NewFile
  <1>4. Types /\ desc[f] = None
    BY <1>0, <1>3 DEF Core, Objects
  <1>5. /\ os'[d] = f /\ f # None /\ \A x \in Descs : x # d => os'[x] = os[x]
        /\ os' \in [Descs -> Files \cup {None}]
        /\ desc'[f] = d /\ d # None /\ \A x \in Files : x # f => desc'[x] = desc[x]
        /\ desc' \in [Files -> Descs \cup {None}]
        /\ obj'[f] = "file" /\ \A x \in Files : x # f => obj'[x] = obj[x]
        /\ obj' \in [Files -> {"none", "file", "closed"}]
    BY <1>1, <1>2, <1>4, FilesAssumption DEF Types
  <1>6. Types'
    BY <1>2, <1>4, <1>5 DEF Types, Stacked
  <1>7. Objects'
    BY <1>0, <1>5 DEF Core, Objects
  <1>8. \A e \in Coros :
          /\ req[e].op \in Opening \cup OnFile => req[e].file \in Files \ {f}
          /\ want[e].op \in Opening => want[e].file \in Files \ {f}
          /\ req[e].op \in Opening => req[e].fd \in Descs \cup {None}
    BY <1>3, <1>4, ReqFields, WantFields DEF Types
  <1>9. Fresh'
    BY <1>0, <1>2, <1>5, <1>8 DEF Core, Fresh
  <1>10. ReqsOK'
    BY <1>0, <1>2 DEF Core, ReqsOK, ReqOK
  <1>11. ASSUME ~failed'
         PROVE  Held'
    <2>0. Core /\ Held
      BY <1>2, <1>11 DEF Inv
    <2>1. \A e \in Coros : \A x : Holds(e, x)' <=> Holds(e, x)
      BY <1>2 DEF Holds
    <2>2. /\ \A x \in Files : desc[x] # d
          /\ \A e \in Coros : ~Holds(e, d)
      BY <2>0, <1>1, FilesAssumption DEF Held, HeldByFiles, HeldByReqs
    <2>3. HeldByReqs'
      <3>1. ASSUME NEW e \in Coros, req'[e].op \in Opening, req'[e].fd # None
            PROVE  os'[req'[e].fd] = req'[e].file
        <4>1. os[req[e].fd] = req[e].file
          BY <2>0, <1>2, <3>1 DEF Held, HeldByReqs
        <4>2. req[e].fd \in Descs /\ req[e].st = "done"
          BY <1>0, <1>2, <1>8, <3>1 DEF Core, ReqsOK, ReqOK
        <4>3. req[e].fd # d
          BY <1>2, <2>2, <3>1, <4>2 DEF Holds
        <4>4. QED
          BY <1>2, <1>5, <4>1, <4>2, <4>3
      <3>2. \A e, x \in Coros : \A y \in Descs : Holds(e, y)' =>
              /\ os'[y] # None
              /\ \A g \in Files : desc'[g] # y
              /\ Holds(x, y)' => x = e
        BY <2>0, <1>2, <2>1, <1>5, <2>2 DEF Held, HeldByReqs
      <3>3. QED
        BY <3>1, <3>2 DEF HeldByReqs
    <2>4. HeldByFiles'
      BY <2>0, <1>2, <1>4, <1>5, <2>2 DEF Held, HeldByFiles, Types
    <2>5. Awaiting'
      <3>1. \A g \in Files : \A x \in Descs : Has(g, x) => Has(g, x)'
        BY <1>3, <1>4, <1>5, FilesAssumption DEF Has
      <3>2. \A e \in Coros : Using(e)' => SameUse(e)
        BY <1>2 DEF Using, SameUse
      <3>3. QED
        BY <2>0, <3>1, <3>2, AwaitingKept DEF Held
    <2>6. QED
      BY <2>3, <2>4, <2>5 DEF Held
  <1>12. QED
    BY <1>6, <1>7, <1>9, <1>10, <1>11 DEF Inv, Core

(* A file is closed in the calling thread, by the program or by the        *)
(* collector; in the second case nobody awaits an operation on it.         *)
LEMMA DetachKeeps ==
  ASSUME Inv, NEW f \in Files, obj[f] = "file", CloseDesc(f),
         NEW k \in {"closed", "none"}, Detach(f, k), failed' = failed,
         k = "none" => ~Awaited(f)
  PROVE  Inv'
  <1> DEFINE d == desc[f]
  <1>0. Core
    BY DEF Inv
  <1>1. Types /\ d \in Descs
    BY <1>0 DEF Core, Objects, Types
  <1>2. /\ os' = [os EXCEPT ![d] = None] /\ desc' = [desc EXCEPT ![f] = None]
        /\ obj' = [obj EXCEPT ![f] = k]
        /\ req' = req /\ want' = want /\ co' = co /\ stack' = stack
    BY DEF CloseDesc, Detach, threadVars
  <1>3. /\ os'[d] = None /\ \A x \in Descs : x # d => os'[x] = os[x]
        /\ os' \in [Descs -> Files \cup {None}]
        /\ desc'[f] = None /\ \A x \in Files : x # f => desc'[x] = desc[x]
        /\ desc' \in [Files -> Descs \cup {None}]
        /\ obj'[f] = k /\ \A x \in Files : x # f => obj'[x] = obj[x]
        /\ obj' \in [Files -> {"none", "file", "closed"}]
    BY <1>1, <1>2, FilesAssumption DEF Types
  <1>w. ~failed => /\ os[d] = f
                   /\ \A x \in Files : x # f => desc[x] # d
                   /\ \A e \in Coros : ~Holds(e, d)
    BY <1>1, FilesAssumption DEF Inv, Held, HeldByFiles, HeldByReqs
  <1> HIDE DEF d
  <1>4. Types'
    BY <1>1, <1>2, <1>3 DEF Types, Stacked
  <1>5. Objects'
    BY <1>0, <1>3 DEF Core, Objects
  <1>6. Fresh'
    <2>1. \A e \in Coros : /\ req[e].op \in Opening => req[e].file \in Files
                           /\ want[e].op \in Opening => want[e].file \in Files
      BY <1>1, ReqFields, WantFields DEF Types
    <2>2. \A x \in Files : obj[x] = "none" => obj'[x] = "none"
      BY <1>3
    <2>3. QED
      BY <1>0, <1>2, <2>1, <2>2 DEF Core, Fresh
  <1>7. ReqsOK'
    BY <1>0, <1>2 DEF Core, ReqsOK, ReqOK
  <1>8. ASSUME ~failed'
        PROVE  Held'
    <2>0. Core /\ Held
      BY <1>8 DEF Inv
    <2>1. \A e \in Coros : \A x : Holds(e, x)' <=> Holds(e, x)
      BY <1>2 DEF Holds
    <2>2. /\ os[d] = f
          /\ \A x \in Files : x # f => desc[x] # d
          /\ \A e \in Coros : ~Holds(e, d)
      BY <1>8, <1>w
    <2>3. HeldByReqs'
      <3>1. ASSUME NEW e \in Coros, req'[e].op \in Opening, req'[e].fd # None
            PROVE  os'[req'[e].fd] = req'[e].file
        <4>1. os[req[e].fd] = req[e].file
          BY <2>0, <1>2, <3>1 DEF Held, HeldByReqs
        <4>2. req[e].fd \in Descs /\ req[e].st = "done"
          BY <1>0, <1>1, <1>2, <3>1, ReqFields DEF Core, Types, ReqsOK, ReqOK
        <4>3. req[e].fd # d
          BY <1>2, <2>2, <3>1, <4>2 DEF Holds
        <4>4. QED
          BY <1>2, <1>3, <4>1, <4>2, <4>3
      <3>2. \A e, x \in Coros : \A y \in Descs : Holds(e, y)' =>
              /\ os'[y] # None
              /\ \A g \in Files : desc'[g] # y
              /\ Holds(x, y)' => x = e
        BY <2>0, <1>2, <2>1, <1>3, <2>2, FilesAssumption DEF Held, HeldByReqs
      <3>3. QED
        BY <3>1, <3>2 DEF HeldByReqs
    <2>4. HeldByFiles'
      BY <2>0, <1>1, <1>2, <1>3, <2>2 DEF Held, HeldByFiles, Types
    <2>5. Awaiting'
      <3>1. \A e \in Coros : \A g \in Files : \A x \in Descs :
              Using(e) /\ g \in {req[e].file, req[e].src} /\ Has(g, x) => Has(g, x)'
        BY <1>3 DEF Has, Using, Awaited
      <3>2. \A e \in Coros : Using(e)' => SameUse(e)
        BY <1>2 DEF Using, SameUse
      <3>3. QED
        BY <2>0, <3>1, <3>2, AwaitingKept DEF Held
    <2>6. QED
      BY <2>3, <2>4, <2>5 DEF Held
  <1>9. QED
    BY <1>4, <1>5, <1>6, <1>7, <1>8 DEF Inv, Core

(* A close in the calling thread fails, and the object keeps the number of *)
(* its descriptor.                                                         *)
LEMMA FailedKeeps ==
  ASSUME Inv, NEW f \in Files, CloseDesc(f), failed' = TRUE, obj' = obj, desc' = desc
  PROVE  Inv'
  <1>1. Core
    BY DEF Inv
  <1>2. Types'
    BY <1>1 DEF Core, CloseDesc, threadVars, Types, Stacked
  <1>3. Objects' /\ Fresh' /\ ReqsOK'
    BY <1>1 DEF Core, CloseDesc, Objects, Fresh, ReqsOK, ReqOK
  <1>4. QED
    BY <1>2, <1>3 DEF Inv, Core

(* A file that was closed is collected. *)
LEMMA CollectClosedKeeps ==
  ASSUME Inv, NEW f \in Files, CollectClosed(f)
  PROVE  Inv'
  <1>0. Core
    BY DEF Inv
  <1>1. /\ obj[f] = "closed" /\ obj' = [obj EXCEPT ![f] = "none"]
        /\ desc' = desc /\ os' = os /\ req' = req /\ want' = want /\ failed' = failed
        /\ co' = co /\ stack' = stack
    BY DEF CollectClosed, threadVars
  <1>2. /\ obj'[f] = "none" /\ \A x \in Files : x # f => obj'[x] = obj[x]
        /\ obj' \in [Files -> {"none", "file", "closed"}]
    BY <1>0, <1>1 DEF Core, Types
  <1>3. Types'
    BY <1>0, <1>1, <1>2 DEF Core, Types, Stacked
  <1>4. Objects'
    BY <1>0, <1>1, <1>2 DEF Core, Objects
  <1>5. Fresh'
    <2>1. \A e \in Coros : /\ req[e].op \in Opening => req[e].file \in Files
                           /\ want[e].op \in Opening => want[e].file \in Files
      BY <1>0, ReqFields, WantFields DEF Core, Types
    <2>2. \A x \in Files : obj[x] = "none" => obj'[x] = "none"
      BY <1>2
    <2>3. QED
      BY <1>0, <1>1, <2>1, <2>2 DEF Core, Fresh
  <1>6. ReqsOK'
    BY <1>0, <1>1 DEF Core, ReqsOK, ReqOK
  <1>7. ASSUME ~failed'
        PROVE  Held'
    <2>0. Core /\ Held
      BY <1>1, <1>7 DEF Inv
    <2>1. \A e \in Coros : \A x : Holds(e, x)' <=> Holds(e, x)
      BY <1>1 DEF Holds
    <2>2. HeldByReqs' /\ HeldByFiles'
      BY <2>0, <2>1, <1>1 DEF Held, HeldByReqs, HeldByFiles
    <2>3. Awaiting'
      <3>1. \A e \in Coros : \A g \in Files : \A x \in Descs :
              Using(e) /\ g \in {req[e].file, req[e].src} /\ Has(g, x) => Has(g, x)'
        BY <1>1, <1>2 DEF CollectClosed, Has, Using, Awaited
      <3>2. \A e \in Coros : Using(e)' => SameUse(e)
        BY <1>1 DEF Using, SameUse
      <3>3. QED
        BY <2>0, <3>1, <3>2, AwaitingKept DEF Held
    <2>4. QED
      BY <2>2, <2>3 DEF Held
  <1>8. QED
    BY <1>3, <1>4, <1>5, <1>6, <1>7 DEF Inv, Core

(* A step that changes only what a coroutine wants to request. *)
LEMMA WantKeeps ==
  ASSUME Inv, NEW c \in Coros, NEW w \in Wants, want' = [want EXCEPT ![c] = w],
         w.op \in Opening =>
           /\ obj[w.file] = "none"
           /\ \A e \in Coros : /\ req[e].op \in Opening => req[e].file # w.file
                               /\ want[e].op \in Opening => want[e].file # w.file,
         obj' = obj, desc' = desc, os' = os, req' = req, failed' = failed,
         Stacked', \A e \in Coros : co'[e] = co[e] \/ co'[e] # "request"
  PROVE  Inv'
  <1>0. Core
    BY DEF Inv
  <1>1. want'[c] = w /\ \A e \in Coros : e # c => want'[e] = want[e]
    BY <1>0 DEF Core, Types
  <1>2. Types'
    BY <1>0 DEF Core, Types
  <1>3. Objects' /\ ReqsOK'
    BY <1>0 DEF Core, Objects, ReqsOK, ReqOK
  <1>4. Fresh'
    BY <1>0, <1>1 DEF Core, Fresh
  <1>5. ASSUME ~failed'
        PROVE  Held'
    <2>0. Core /\ Held
      BY <1>5 DEF Inv
    <2>1. \A e \in Coros : \A x : Holds(e, x)' <=> Holds(e, x)
      BY DEF Holds
    <2>2. HeldByReqs' /\ HeldByFiles'
      BY <2>0, <2>1 DEF Held, HeldByReqs, HeldByFiles
    <2>3. Awaiting'
      BY <2>0 DEF Held, Awaiting, Using, HasAll, Has
    <2>4. QED
      BY <2>2, <2>3 DEF Held
  <1>6. QED
    BY <1>2, <1>3, <1>4, <1>5 DEF Inv, Core

(* A step of Lua code that changes no file. *)
LEMMA SameKeeps ==
  ASSUME Inv, UNCHANGED fileVars, Stacked',
         \A e \in Coros : co'[e] = co[e] \/ co'[e] # "request"
  PROVE  Inv'
  <1>0. Core
    BY DEF Inv
  <1>1. Types'
    BY <1>0 DEF Core, Types, fileVars
  <1>2. Objects' /\ Fresh' /\ ReqsOK'
    BY <1>0 DEF Core, Objects, Fresh, ReqsOK, ReqOK, fileVars
  <1>3. ASSUME ~failed'
        PROVE  Held'
    <2>0. Core /\ Held
      BY <1>3 DEF Inv, fileVars
    <2>1. \A e \in Coros : \A x : Holds(e, x)' <=> Holds(e, x)
      BY DEF Holds, fileVars
    <2>2. HeldByReqs' /\ HeldByFiles'
      BY <2>0, <2>1 DEF Held, HeldByReqs, HeldByFiles, fileVars
    <2>3. Awaiting'
      BY <2>0 DEF Held, Awaiting, Using, HasAll, Has, fileVars
    <2>4. QED
      BY <2>2, <2>3 DEF Held
  <1>4. QED
    BY <1>1, <1>2, <1>3 DEF Inv, Core

-----------------------------------------------------------------------------
(* A coroutine in k_resetopk has something to request. *)
Pending == \A c \in Coros : co[c] = "deferred" => want[c].op # "none"

LEMMA PendingKept ==
  ASSUME Types, Pending, [Next]_vars
  PROVE  Pending'
  <1>t. co \in [Coros -> CoStates] /\ want \in [Coros -> Wants]
    BY DEF Types, Stacked
  <1>1. ASSUME want' = want, \A e \in Coros : co'[e] = co[e] \/ co'[e] # "deferred"
        PROVE  Pending'
    BY <1>1 DEF Pending
  <1>2. ASSUME NEW c \in Coros, NEW w, want' = [want EXCEPT ![c] = w],
               co'[c] = "deferred" => w.op # "none",
               \A e \in Coros : e # c => co'[e] = co[e]
        PROVE  Pending'
    BY <1>t, <1>2 DEF Pending
  <1>3. ASSUME NEW c \in Coros, NEW s, Enter(c, s)
        PROVE  /\ co'[c] = "running"
               /\ \A e \in Coros : e # c => co'[e] = co[e]
    BY <1>t, <1>3 DEF Enter
  <1>4. ASSUME NEW c \in Coros, NEW k, Exit(c, k)
        PROVE  co'[c] = k /\ \A e \in Coros : e # c => co'[e] = co[e]
    BY <1>t, <1>4 DEF Exit
  <1>5. ASSUME NEW c \in Coros, NEW op, NEW f, NEW src, Call(c, op, f, src), op # "none"
        PROVE  Pending'
    BY <1>1, <1>2, <1>4, <1>5 DEF Call
  <1>6. CASE LuaNext /\ UNCHANGED fileVars
    BY <1>1, <1>3, <1>4, <1>6 DEF LuaNext, Start, Yield, Resume, fileVars
  <1>7. ASSUME NEW c \in Coros,
               \/ Work(c) \/ Completed(c) \/ TempCompleted(c) \/ NextSource(c)
               \/ Discarded(c)
        PROVE  Pending'
    BY <1>1, <1>3, <1>7
       DEF Work, Completed, TempCompleted, NextSource, Discarded, threadVars
  <1>8. ASSUME NEW c \in Coros, Deferred(c)
        PROVE  Pending'
    <2>1. CASE co' = [co EXCEPT ![c] = "request"]
      BY <1>t, <1>2, <1>8, <2>1 DEF Deferred
    <2>2. CASE Enter(c, stack)
      BY <1>2, <1>3, <1>8, <2>2 DEF Deferred
    <2>3. QED
      BY <1>8, <2>1, <2>2 DEF Deferred
  <1>9. ASSUME NEW c \in Coros, FileInfo(c) \/ TouchFile(c) \/ LinkFile(c) \/ MakeDir(c)
        PROVE  Pending'
    BY <1>5, <1>9 DEF FileInfo, TouchFile, LinkFile, MakeDir, UsePath
  <1>10. ASSUME NEW c \in Coros, NEW f \in Files,
               \/ OpenFile(c, f) \/ MakeTemp(c, f) \/ InfoOrTouch(c, f) \/ CloseFile(c, f)
               \/ \E src \in Files \cup {None} : ReadOrWrite(c, f, src)
        PROVE  Pending'
    BY <1>5, <1>10 DEF OpenFile, MakeTemp, ReadOrWrite, InfoOrTouch, Use, CloseFile
  <1>11. ASSUME NEW c \in Coros, NEW f \in Files,
               OpenBlocking(c, f) \/ CloseBlocking(c, f)
        PROVE  Pending'
    BY <1>1, <1>11 DEF OpenBlocking, CloseBlocking, CloseDesc, threadVars
  <1>12. ASSUME NEW c \in Coros, NEW d \in Coros, Halt(c, d)
        PROVE  Pending'
    BY <1>1, <1>3, <1>12 DEF Halt
  <1>13. ASSUME NEW c \in Coros, NEW d \in Coros, HaltDeferred(c, d)
        PROVE  Pending'
    BY <1>2, <1>3, <1>13 DEF HaltDeferred
  <1>14. ASSUME NEW f \in Files, Collect(f) \/ CollectClosed(f)
        PROVE  Pending'
    BY <1>1, <1>14 DEF Collect, CollectClosed, CloseDesc, threadVars
  <1>15. CASE UNCHANGED vars
    BY <1>1, <1>15 DEF vars, threadVars, fileVars
  <1>16. QED
    BY <1>6, <1>7, <1>8, <1>9, <1>10, <1>11, <1>12, <1>13, <1>14, <1>15 DEF Next

-----------------------------------------------------------------------------
-----------------------------------------------------------------------------
(* The actions. *)
LEMMA CallKeeps ==
  ASSUME Inv, NEW c \in Coros, NEW op, NEW f, NEW src, Callable(op, f, src), Running(c),
         Call(c, op, f, src), op \in Opening => NewFile(f), UNCHANGED <<os, failed>>
  PROVE  Inv'
  <1>1. Types
    BY DEF Inv, Core
  <1>2. CASE req[c] = NoReq /\ Setup(c, op, f, src) /\ Exit(c, "request") /\ UNCHANGED want
    <2>1. OthersAwait(c)
      BY <1>1, <1>2, ExitOthers DEF CoStates
    <2>2. req[c].st # "queued"
      BY <1>2 DEF NoReq
    <2>3. want' \in [Coros -> Wants]
      BY <1>1, <1>2 DEF Types
    <2>4. QED
      BY <1>2, <2>1, <2>2, <2>3, SetupKeeps DEF NewFile
  <1>3. CASE /\ want' = [want EXCEPT ![c] = [op |-> op, file |-> f, src |-> src]]
             /\ Exit(c, "deferred") /\ UNCHANGED <<obj, desc, req>>
    <2>1. OthersAwait(c) /\ co'[c] = "deferred"
      BY <1>1, <1>3, ExitOthers DEF CoStates
    <2>2. [op |-> op, file |-> f, src |-> src] \in Wants
      BY DEF Callable, Wants
    <2>3. \A e \in Coros : co'[e] = co[e] \/ co'[e] # "request"
      BY <2>1 DEF OthersAwait
    <2>4. QED
      BY <1>3, <2>1, <2>2, <2>3, WantKeeps DEF NewFile, OthersAwait
  <1>4. QED
    BY <1>2, <1>3 DEF Call

LEMMA WorkKeeps ==
  ASSUME Inv, NEW c \in Coros, Work(c)
  PROVE  Inv'
  <1>1. /\ req[c].st = "queued" /\ OthersAwait(c)
        /\ obj' = obj /\ desc' = desc /\ want' = want /\ failed' = failed
    BY DEF Work, threadVars, Inv, Core, Types, Stacked, OthersAwait
  <1>2. CASE /\ req[c].op \in Opening
             /\ \E d \in Descs : /\ os[d] = None
                                 /\ os' = [os EXCEPT ![d] = req[c].file]
                                 /\ req' = [req EXCEPT ![c].fd = d, ![c].st = "done"]
    BY <1>1, <1>2, OpenKeeps
  <1>3. CASE /\ req[c].op # "close" /\ UNCHANGED os
             /\ req' = [req EXCEPT ![c].st = "done"]
    BY <1>1, <1>3, StageKeeps
  <1>4. CASE /\ req[c].op = "close" /\ os' = [os EXCEPT ![req[c].fd] = None]
             /\ req' = [req EXCEPT ![c].st = "done"]
    BY <1>1, <1>4, CloseStageKeeps
  <1>5. "close" \notin Opening
    BY DEF Opening
  <1>6. QED
    BY <1>2, <1>3, <1>4, <1>5 DEF Work

LEMMA HaltKeeps ==
  ASSUME Inv, NEW c \in Coros, NEW d \in Coros, Halt(c, d)
  PROVE  Inv'
  <1>1. /\ OthersAwait(d) /\ Stacked'
        /\ \A e \in Coros : co'[e] = co[e] \/ co'[e] # "request"
    BY EnterOthers DEF Halt, Inv, Core, OthersAwait
  <1>2. obj' = obj /\ desc' = desc /\ want' = want /\ os' = os /\ failed' = failed
    BY DEF Halt
  <1>3. CASE UNCHANGED req
    BY <1>1, <1>2, <1>3, SameKeeps DEF fileVars
  <1>4. CASE /\ req[d].st = "queued" /\ req' = [req EXCEPT ![d].st = "canceled"]
    <2>1. CASE req[d].op = "close"
      BY <1>1, <1>2, <1>4, <2>1, CloseStageKeeps
    <2>2. CASE req[d].op # "close"
      BY <1>1, <1>2, <1>4, <2>2, StageKeeps
    <2>3. QED
      BY <2>1, <2>2
  <1>5. QED
    BY <1>3, <1>4 DEF Halt

LEMMA HaltDeferredKeeps ==
  ASSUME Inv, NEW c \in Coros, NEW d \in Coros, HaltDeferred(c, d)
  PROVE  Inv'
  <1>1. Stacked' /\ \A e \in Coros : co'[e] = co[e] \/ co'[e] # "request"
    BY EnterOthers DEF HaltDeferred, Inv, Core, OthersAwait
  <1>2. NoCall \in Wants /\ NoCall.op \notin Opening
    BY DEF Wants, NoCall, Opening
  <1>3. QED
    BY <1>1, <1>2, WantKeeps DEF HaltDeferred

LEMMA EndedKeeps ==
  ASSUME Inv, NEW c \in Coros,
         Completed(c) \/ TempCompleted(c) \/ NextSource(c) \/ Discarded(c)
  PROVE  Inv'
  <1>1. Types /\ req[c].st # "queued" /\ req[c] \in Reqs
    BY DEF Inv, Core, Types, Completed, TempCompleted, NextSource, Discarded, Ended
  <1>w. want' = want /\ want' \in [Coros -> Wants]
    BY <1>1 DEF Types, Completed, TempCompleted, NextSource, Discarded
  <1>2. CASE Completed(c)
    <2>1. OthersAwait(c) /\ os' = os /\ failed' = failed /\ req' = [req EXCEPT ![c] = NoReq]
      BY <1>1, <1>2, EnterOthers DEF Completed
    <2>2. CASE req[c].op \in Opening /\ req[c].fd # None
      <3>1. /\ desc' = [desc EXCEPT ![req[c].file] = req[c].fd]
            /\ obj' = [obj EXCEPT ![req[c].file] = "file"]
        BY <1>2, <2>2 DEF Completed
      <3>2. QED
        BY <1>w, <2>1, <2>2, <3>1, CompletedKeeps
    <2>3. CASE ~(req[c].op \in Opening /\ req[c].fd # None)
      <3>1. desc' = desc /\ obj' = obj
        BY <1>2, <2>3 DEF Completed
      <3>2. QED
        BY <1>1, <1>w, <2>1, <3>1, ReleaseKeeps
    <2>4. QED
      BY <2>2, <2>3
  <1>3. CASE TempCompleted(c)
    <2>1. OthersAwait(c)
      BY <1>1, <1>3, EnterOthers DEF TempCompleted
    <2>2. QED
      BY <1>3, <2>1, TempKeeps DEF TempCompleted, Opening
  <1>4. CASE NextSource(c)
    <2>1. OthersAwait(c)
      BY <1>1, <1>4 DEF NextSource, threadVars, Types, Stacked, OthersAwait
    <2>2. Callable("info", None, None) /\ "info" \notin Opening
      BY DEF Opening, Callable, OnPath
    <2>3. failed' = failed /\ os' = os /\ Setup(c, "info", None, None)
      BY <1>4 DEF NextSource
    <2>4. QED
      BY <1>1, <1>w, <2>1, <2>2, <2>3, SetupKeeps
  <1>5. CASE Discarded(c)
    <2>1. OthersAwait(c)
      BY <1>1, <1>5 DEF Discarded, threadVars, Types, Stacked, OthersAwait
    <2>2. QED
      BY <1>1, <1>5, <1>w, <2>1, ReleaseKeeps DEF Discarded
  <1>6. QED
    BY <1>2, <1>3, <1>4, <1>5

LEMMA DeferredKeeps ==
  ASSUME Inv, Pending, NEW c \in Coros, Deferred(c)
  PROVE  Inv'
  <1>1. Types /\ req[c].st # "queued" /\ want[c] \in Wants
    BY DEF Inv, Core, Types, Deferred, Ended
  <1>2. NoCall \in Wants /\ NoCall.op \notin Opening
    BY DEF Wants, NoCall, Opening
  <1>3. /\ want' \in [Coros -> Wants] /\ want'[c] = NoCall
        /\ \A e \in Coros : want'[e] = want[e] \/ want'[e] = NoCall
        /\ \A e \in Coros : e # c => want'[e] = want[e]
        /\ os' = os /\ failed' = failed
    BY <1>1, <1>2 DEF Types, Deferred
  <1>4. CASE /\ Setup(c, want[c].op, want[c].file, want[c].src)
             /\ co' = [co EXCEPT ![c] = "request"] /\ UNCHANGED stack
    <2>1. OthersAwait(c)
      BY <1>1, <1>4 DEF Types, Stacked, OthersAwait, CoStates
    <2>2. want[c].op # "none" => Callable(want[c].op, want[c].file, want[c].src)
      BY <1>1, WantFields DEF Callable, Opening, OnFile, OnPath
    <2>3. want[c].op \in Opening =>
            /\ obj[want[c].file] = "none"
            /\ \A e \in Coros :
                 /\ e # c /\ req[e].op \in Opening => req[e].file # want[c].file
                 /\ want'[e].op \in Opening => want'[e].file # want[c].file
      BY <1>2, <1>3 DEF Inv, Core, Fresh
    <2>4. want[c].op # "none"
      BY DEF Deferred, Pending
    <2>5. QED
      BY <1>1, <1>3, <1>4, <2>1, <2>2, <2>3, <2>4, SetupKeeps
  <1>5. CASE /\ req' = [req EXCEPT ![c] = NoReq]
             /\ Enter(c, stack) /\ UNCHANGED <<obj, desc>>
    <2>1. OthersAwait(c)
      BY <1>1, <1>5, EnterOthers
    <2>2. QED
      BY <1>1, <1>3, <1>5, <2>1, ReleaseKeeps
  <1>6. QED
    BY <1>4, <1>5 DEF Deferred

LEMMA InvInit ==
  ASSUME Init
  PROVE  Inv /\ Pending
  <1>1. /\ obj = [f \in Files |-> "none"] /\ desc = [f \in Files |-> None]
        /\ os = [d \in Descs |-> None] /\ failed = FALSE
        /\ req = [c \in Coros |-> NoReq] /\ want = [c \in Coros |-> NoCall]
        /\ co = [c \in Coros |-> "suspended"] /\ stack = <<>>
    BY DEF Init, ThreadsInit
  <1>2. NoReq \in Reqs /\ NoCall \in Wants
    BY DEF Reqs, Wants
  <1>3. /\ NoReq.op \notin Opening /\ NoReq.op # "close" /\ NoReq.op # "use"
        /\ NoCall.op \notin Opening /\ NoReq.srcfd = None
    BY DEF NoReq, NoCall, Opening
  <1>4. Types
    <2>1. failed \in BOOLEAN
      BY <1>1
    <2>2. Stacked
      BY <1>1 DEF Stacked, CoStates
    <2>3. QED
      BY <1>1, <1>2, <2>1, <2>2, Zenon DEF Types
  <1>5. Objects /\ Fresh /\ ReqsOK /\ HeldByFiles /\ Awaiting /\ Pending
    BY <1>1, <1>3 DEF Objects, Fresh, ReqsOK, ReqOK, HeldByFiles, Awaiting, Using, Pending
  <1>6. HeldByReqs
    BY <1>1, <1>3 DEF HeldByReqs, Holds
  <1>7. QED
    BY <1>4, <1>5, <1>6 DEF Inv, Core, Held

LEMMA InvKept ==
  ASSUME Inv, Pending, [Next]_vars
  PROVE  Inv'
  <1>1. CASE LuaNext /\ UNCHANGED fileVars
    <2>1. Stacked'
      BY <1>1, LuaStacked DEF Inv, Core, Types
    <2>2. \A e \in Coros : co'[e] = co[e] \/ co'[e] # "request"
      BY <1>1 DEF LuaNext, Start, Yield, Resume, Enter, Exit, Inv, Core, Types, Stacked
    <2>3. QED
      BY <1>1, <2>1, <2>2, SameKeeps
  <1>2. ASSUME NEW c \in Coros, FileInfo(c) \/ TouchFile(c) \/ LinkFile(c) \/ MakeDir(c)
        PROVE  Inv'
    <2>1. PICK op \in OnPath : UsePath(c, op)
      BY <1>2 DEF FileInfo, TouchFile, LinkFile, MakeDir, OnPath
    <2>2. op \notin Opening /\ Callable(op, None, None)
      BY DEF Opening, OnPath, Callable
    <2>3. QED
      BY <2>1, <2>2, CallKeeps DEF UsePath
  <1>3. ASSUME NEW c \in Coros, NEW f \in Files,
               \/ OpenFile(c, f) \/ MakeTemp(c, f) \/ InfoOrTouch(c, f) \/ CloseFile(c, f)
        PROVE  Inv'
    <2>1. PICK op \in Opening \cup OnFile :
            /\ Running(c) /\ Call(c, op, f, None) /\ UNCHANGED <<os, failed>>
            /\ op \in Opening => NewFile(f)
      BY <1>3 DEF OpenFile, MakeTemp, InfoOrTouch, Use, CloseFile,
                  Opening, OnFile
    <2>2. Callable(op, f, None)
      BY DEF Callable
    <2>3. QED
      BY <2>1, <2>2, CallKeeps
  <1>4. ASSUME NEW c \in Coros, NEW f \in Files, CloseBlocking(c, f)
        PROVE  Inv'
    <2>1. CASE Detach(f, "closed") /\ UNCHANGED failed
      BY <1>4, <2>1, DetachKeeps DEF CloseBlocking
    <2>2. CASE failed' = TRUE /\ UNCHANGED <<obj, desc>>
      BY <1>4, <2>2, FailedKeeps DEF CloseBlocking
    <2>3. QED
      BY <1>4, <2>1, <2>2 DEF CloseBlocking
  <1>5. ASSUME NEW f \in Files, Collect(f)
        PROVE  Inv'
    BY <1>5, DetachKeeps DEF Collect
  <1>6. CASE UNCHANGED vars
    BY <1>6, SameKeeps DEF vars, threadVars, Inv, Core, Types, Stacked
  <1>7. ASSUME NEW c \in Coros, NEW f \in Files, NEW src \in Files \cup {None},
               ReadOrWrite(c, f, src)
        PROVE  Inv'
    <2>1. Callable("use", f, src) /\ "use" \notin Opening
      BY DEF Callable, OnFile, Opening
    <2>2. QED
      BY <1>7, <2>1, CallKeeps DEF ReadOrWrite, Use
  <1>8. QED
    BY <1>1, <1>2, <1>3, <1>4, <1>5, <1>6, <1>7, OpenBlockingKeeps, CollectClosedKeeps, WorkKeeps, EndedKeeps,
       DeferredKeeps, HaltKeeps, HaltDeferredKeeps DEF Next

LEMMA SpecInv == Spec => []Inv
  <1>1. Inv /\ Pending /\ [Next]_vars => (Inv /\ Pending)'
    BY InvKept, PendingKept DEF Inv, Core
  <1>2. QED
    BY <1>1, InvInit, PTL DEF Spec

-----------------------------------------------------------------------------
(* The results. *)

(* The state is well typed, whatever fails: a request on a file has the    *)
(* descriptor of that file, even if it was set up long after the call      *)
(* (openedfile).                                                           *)
THEOREM FileTypeCorrect == Spec => []TypeOK
  <1>1. Inv => TypeOK
    BY DEF Inv, Core, Types, Stacked, TypeOK, CoStates, Frames, Reqs, OpenReqs, FileReqs,
           PathReqs, Wants
  <1>2. QED
    BY <1>1, SpecInv, PTL

(* The owners of a descriptor. *)
Owned(d) == (\E f \in Files : desc[f] = d) \/ \E c \in Coros : Holds(c, d)

LEMMA OwnersAre ==
  ASSUME NEW d
  PROVE  Owners(d) = {f \in Files : desc[f] = d} \cup {c \in Coros : Holds(c, d)}
  BY DEF Owners, Holds

(* As long as no close in the calling thread fails, a descriptor has one   *)
(* owner at most, that closes it once, and an object has the descriptor of *)
(* its own file (returnopenfile, k_setupclosef, file_gc).                  *)
THEOREM DescriptorsAreOwned == Spec => []DescriptorsOwned
  <1>1. ASSUME Inv
        PROVE  DescriptorsOwned
    <2>1. ASSUME ~failed, NEW d \in Descs
          PROVE  /\ os[d] = None => Owners(d) = {}
                 /\ \A x, y \in Owners(d) : x = y
                 /\ \A f \in Files : desc[f] = d => os[d] = f /\ obj[f] = "file"
      <3>1. Core /\ Held
        BY <1>1, <2>1 DEF Inv
      <3>2. \A f \in Files : desc[f] = d => os[d] = f /\ obj[f] = "file"
        BY <3>1, FilesAssumption DEF Core, Objects, Held, HeldByFiles
      <3>3. \A c \in Coros : Holds(c, d) =>
              /\ os[d] # None
              /\ \A f \in Files : desc[f] # d
              /\ \A e \in Coros : Holds(e, d) => e = c
        BY <3>1 DEF Held, HeldByReqs
      <3>4. os[d] = None => Owners(d) = {}
        BY <3>2, <3>3, OwnersAre, FilesAssumption
      <3>5. \A x, y \in Owners(d) : x = y
        BY <3>2, <3>3, OwnersAre
      <3>6. QED
        BY <3>2, <3>4, <3>5
    <2>2. QED
      BY <2>1 DEF DescriptorsOwned
  <1>2. QED
    BY <1>1, SpecInv, PTL

(* As long as no close in the calling thread fails, who awaits an          *)
(* operation on a file that the program did not close uses that file, and  *)
(* so with the source of a write (file_gc, the arguments in the stack).    *)
THEOREM FilesAreUsed == Spec => []UsesOwnFile
  <1>1. ASSUME Inv
        PROVE  UsesOwnFile
    <2>1. ASSUME ~failed, NEW c \in Coros, co[c] = "request", req[c].op = "use",
                 req[c].st = "queued"
          PROVE  /\ obj[req[c].file] # "closed" => os[req[c].fd] = req[c].file
                 /\ req[c].srcfd # None /\ obj[req[c].src] # "closed" =>
                      os[req[c].srcfd] = req[c].src
      <3>1. Core /\ Held /\ Using(c)
        BY <1>1, <2>1 DEF Inv, Using
      <3>2. /\ req[c].file \in Files /\ req[c].fd \in Descs
            /\ req[c].srcfd # None => req[c].src \in Files /\ req[c].srcfd \in Descs
        BY <3>1, UsingFields
      <3>3. HasAll(req[c])
        BY <3>1 DEF Held, Awaiting
      <3>4. \A f \in Files : \A d \in Descs : Has(f, d) /\ obj[f] # "closed" => os[d] = f
        BY <3>1, FilesAssumption DEF Has, Held, HeldByFiles
      <3>5. QED
        BY <3>2, <3>3, <3>4 DEF HasAll
    <2>2. QED
      BY <2>1 DEF UsesOwnFile
  <1>2. QED
    BY <1>1, SpecInv, PTL

-----------------------------------------------------------------------------
(* How a descriptor is lost. *)
LEMMA LostIs ==
  ASSUME NEW d
  PROVE  Lost(d) <=> os[d] # None /\ ~Owned(d)
  BY OwnersAre DEF Lost, Owned

LEMMA LostIsNext ==
  ASSUME NEW d
  PROVE  Lost(d)' <=> os'[d] # None /\ ~Owned(d)'
  <1>1. Owners(d)' = {f \in Files : desc'[f] = d} \cup {c \in Coros : Holds(c, d)'}
    BY DEF Owners, Holds
  <1>2. QED
    BY <1>1 DEF Lost, Owned

(* The step loses d. *)
Loses(d) == Lost(d)' /\ ~Lost(d)

(* Who owned d does not own it any more. *)
LEMMA LosesOwner ==
  ASSUME NEW d, Loses(d), os[d] = None => os'[d] = None
  PROVE  Owned(d) /\ ~Owned(d)' /\ os'[d] # None
  BY LostIs, LostIsNext DEF Loses

(* A request that ended gives its place to another, or to none. *)
LEMMA SetupLoses ==
  ASSUME Core, NEW c \in Coros, NEW op, NEW f, NEW src, Callable(op, f, src),
         Setup(c, op, f, src), os' = os, NEW d \in Descs, Loses(d)
  PROVE  Holds(c, d)
  <1> DEFINE r == Request(op, f, src)
  <1>1. Types /\ ~SetupFails(op, f)
    BY DEF Core, Setup
  <1>2. /\ r \in Reqs /\ r.op = op /\ r.st = "queued"
        /\ r.fd = IF op \in OnFile THEN desc[f] ELSE None
    BY <1>1, RequestFields
  <1>3. req' = [req EXCEPT ![c] = r]
    BY DEF Setup
  <1> HIDE DEF r
  <1>4. req'[c] = r /\ \A e \in Coros : e # c => req'[e] = req[e]
    BY <1>1, <1>2, <1>3, ReqStep
  <1>5. Owned(d) /\ ~Owned(d)'
    BY LosesOwner
  <1>6. ASSUME NEW g \in Files, desc[g] = d
        PROVE  FALSE
    <2>1. desc'[g] # d
      BY <1>5 DEF Owned
    <2>2. op = "close" /\ g = f
      BY <1>1, <1>6, <2>1 DEF Setup, Types
    <2>3. Holds(c, d)'
      BY <1>2, <1>4, <1>6, <2>2 DEF Holds, OnFile
    <2>4. QED
      BY <1>5, <2>3 DEF Owned
  <1>7. PICK e \in Coros : Holds(e, d)
    BY <1>5, <1>6 DEF Owned
  <1>8. CASE e # c
    <2>1. Holds(e, d)'
      BY <1>4, <1>7, <1>8 DEF Holds
    <2>2. QED
      BY <1>5, <2>1 DEF Owned
  <1>9. QED
    BY <1>7, <1>8

LEMMA ReleaseLoses ==
  ASSUME Core, NEW c \in Coros, req' = [req EXCEPT ![c] = NoReq],
         desc' = desc, os' = os, NEW d \in Descs, Loses(d)
  PROVE  Holds(c, d)
  <1>1. Owned(d) /\ ~Owned(d)'
    BY LosesOwner
  <1>2. \A e \in Coros : e # c => (Holds(e, d)' <=> Holds(e, d))
    BY DEF Core, Types, Holds
  <1>3. QED
    BY <1>1, <1>2 DEF Owned

(* A step after which all who owned d own it. *)
LEMMA KeepsOwners ==
  ASSUME NEW d, os[d] = None => os'[d] = None \/ Owned(d)',
         os'[d] = None \/ (Owned(d) => Owned(d)')
  PROVE  ~Loses(d)
  BY LostIs, LostIsNext DEF Loses

(* What a step that loses d must be. *)
Canceling(d) == \E c \in Coros : Cancels(c, d)

LEMMA CallLoses ==
  ASSUME Core, NEW c \in Coros, NEW op, NEW f, NEW src, Callable(op, f, src),
         Call(c, op, f, src), os' = os, NEW d \in Descs
  PROVE  ~Loses(d)
  <1>1. CASE req[c] = NoReq /\ Setup(c, op, f, src)
    <2>1. ~Holds(c, d)
      BY <1>1 DEF Holds, NoReq, Opening
    <2>2. QED
      BY <1>1, <2>1, SetupLoses
  <1>2. CASE UNCHANGED <<obj, desc, req>>
    BY <1>2, KeepsOwners DEF Owned, Holds
  <1>3. QED
    BY <1>1, <1>2 DEF Call

LEMMA WorkLoses ==
  ASSUME Core, NEW c \in Coros, Work(c), NEW d \in Descs
  PROVE  ~Loses(d)
  <1>1. Types /\ req[c] \in Reqs /\ req[c].st = "queued" /\ req[c].op # "none"
    <2>1. Types /\ req[c] \in Reqs /\ req[c].st = "queued"
      BY DEF Core, Types, Work
    <2>2. req[c] # NoReq
      BY <2>1, NoReqFields
    <2>3. QED
      BY <2>1, <2>2, ReqFields
  <1>2. \A e \in Coros : e # c => req'[e] = req[e]
    BY <1>1 DEF Work, Types
  <1>3. desc' = desc
    BY DEF Work
  <1>4. req[c].op \in Opening => ~Holds(c, d)
    BY <1>1 DEF Holds, Opening
  <1>5. CASE /\ req[c].op \in Opening
             /\ \E x \in Descs : /\ os[x] = None
                                 /\ os' = [os EXCEPT ![x] = req[c].file]
                                 /\ req' = [req EXCEPT ![c].fd = x, ![c].st = "done"]
    <2>1. PICK x \in Descs : /\ os' = [os EXCEPT ![x] = req[c].file]
                             /\ req' = [req EXCEPT ![c].fd = x, ![c].st = "done"]
      BY <1>5
    <2>2. CASE x = d
      <3> DEFINE r == [req[c] EXCEPT !.fd = d, !.st = "done"]
      <3>1. req'[c] = r
        BY <1>1, <2>1, <2>2 DEF Types
      <3>2. r.op = req[c].op /\ r.fd = d /\ r.st = "done"
        BY <1>1, <1>5, OpenedReq
      <3> HIDE DEF r
      <3>3. req'[c].op \in Opening /\ req'[c].fd = d /\ req'[c].st = "done"
        BY <1>5, <3>1, <3>2
      <3>4. Holds(c, d)'
        BY <3>3 DEF Holds
      <3>5. QED
        BY <3>4, KeepsOwners DEF Owned
    <2>3. CASE x # d
      <3>1. os'[d] = os[d]
        BY <1>1, <2>1, <2>3 DEF Types
      <3>2. QED
        BY <1>2, <1>3, <1>4, <1>5, <3>1, KeepsOwners DEF Owned, Holds
    <2>4. QED
      BY <2>2, <2>3
  <1>6. CASE req[c].op # "close" /\ UNCHANGED os
    <2>1. ~Holds(c, d)
      BY <1>4, <1>6 DEF Holds
    <2>2. QED
      BY <1>2, <1>3, <1>6, <2>1, KeepsOwners DEF Owned, Holds
  <1>7. CASE req[c].op = "close" /\ os' = [os EXCEPT ![req[c].fd] = None]
    <2>1. CASE d = req[c].fd
      <3>1. os'[d] = None
        BY <1>1, <1>7, <2>1 DEF Types
      <3>2. QED
        BY <3>1, KeepsOwners
    <2>2. CASE d # req[c].fd
      <3>1. ~Holds(c, d) /\ os'[d] = os[d]
        BY <1>1, <1>7, <2>2 DEF Holds, Types
      <3>2. QED
        BY <1>2, <1>3, <3>1, KeepsOwners DEF Owned, Holds
    <2>3. QED
      BY <2>1, <2>2
  <1>8. "close" \notin Opening
    BY DEF Opening
  <1>9. QED
    BY <1>5, <1>6, <1>7, <1>8 DEF Work

LEMMA HaltLoses ==
  ASSUME Core, NEW c \in Coros, NEW e \in Coros, Halt(c, e), NEW d \in Descs, Loses(d)
  PROVE  Canceling(d)
  <1>1. Types /\ req[e] \in Reqs /\ desc' = desc /\ os' = os
    BY DEF Core, Types, Halt
  <1>2. CASE req' = req
    BY <1>1, <1>2, KeepsOwners DEF Owned, Holds
  <1>3. CASE req[e].st = "queued" /\ req' = [req EXCEPT ![e].st = "canceled"]
    <2>1. Owned(d) /\ ~Owned(d)'
      BY <1>1, LosesOwner
    <2>2. \A x \in Coros : x # e => (Holds(x, d)' <=> Holds(x, d))
      BY <1>1, <1>3 DEF Types, Holds
    <2>3. Holds(e, d)
      BY <1>1, <2>1, <2>2 DEF Owned
    <2>4. req[e].op = "close" /\ req[e].fd = d
      BY <1>3, <2>3 DEF Holds
    <2>5. req'[e].st = "canceled"
      <3>1. req'[e] = [req[e] EXCEPT !.st = "canceled"]
        BY <1>1, <1>3 DEF Types
      <3>2. "canceled" \in Stages /\ req[e].op # "none"
        BY <2>4 DEF Stages
      <3>3. QED
        BY <1>1, <3>1, <3>2, StageReq
    <2>6. Cancels(e, d)
      BY <1>3, <2>4, <2>5 DEF Cancels
    <2>7. QED
      BY <2>6 DEF Canceling
  <1>4. QED
    BY <1>2, <1>3 DEF Halt

LEMMA EndedLoses ==
  ASSUME Core, NEW c \in Coros, NEW d \in Descs, Loses(d),
         Completed(c) \/ TempCompleted(c) \/ NextSource(c) \/ Discarded(c)
  PROVE  Canceling(d)
  <1>1. Types /\ req[c] \in Reqs /\ req[c].st # "queued" /\ Ended(c)
    BY DEF Core, Types, Completed, TempCompleted, NextSource, Discarded, Ended
  <1>2. Holds(c, d) => req[c].op \in Opening /\ req[c].fd = d
    BY <1>1 DEF Holds
  <1>3. CASE Completed(c)
    <2>1. req' = [req EXCEPT ![c] = NoReq] /\ os' = os
      BY <1>3 DEF Completed
    <2>2. CASE req[c].op \in Opening /\ req[c].fd # None
      <3>1. desc' = [desc EXCEPT ![req[c].file] = req[c].fd]
        BY <1>3, <2>2 DEF Completed
      <3>2. req[c].file \in Files
        BY <1>1, <2>2, ReqFields
      <3>3. desc[req[c].file] = None
        BY <2>2, <3>2 DEF Core, Fresh, Objects
      <3>4. Owned(d) /\ ~Owned(d)'
        BY <2>1, LosesOwner
      <3>5. \A f \in Files : desc[f] = d => desc'[f] = d
        BY <1>1, <3>1, <3>3, FilesAssumption DEF Types
      <3>6. \A e \in Coros : e # c => (Holds(e, d)' <=> Holds(e, d))
        BY <1>1, <2>1 DEF Types, Holds
      <3>7. Holds(c, d)
        BY <3>4, <3>5, <3>6 DEF Owned
      <3>8. desc'[req[c].file] = d
        BY <1>1, <1>2, <3>1, <3>2, <3>7 DEF Types
      <3>9. QED
        BY <3>2, <3>4, <3>8 DEF Owned
    <2>3. CASE ~(req[c].op \in Opening /\ req[c].fd # None)
      <3>1. desc' = desc
        BY <1>3, <2>3 DEF Completed
      <3>2. Holds(c, d)
        BY <2>1, <3>1, ReleaseLoses
      <3>3. QED
        BY <1>2, <2>3, <3>2, FilesAssumption
    <2>4. QED
      BY <2>2, <2>3
  <1>4. CASE TempCompleted(c)
    <2>1. os' = [os EXCEPT ![req[c].fd] = None] /\ desc' = desc
          /\ req' = [req EXCEPT ![c] = NoReq]
      BY <1>4 DEF TempCompleted
    <2>2. d # req[c].fd => os'[d] = os[d]
      BY <1>1, <2>1 DEF Types
    <2>3. d = req[c].fd => os'[d] = None
      BY <1>1, <2>1 DEF Types
    <2>4. Owned(d) /\ ~Owned(d)' /\ os'[d] # None
      BY <2>2, <2>3, LosesOwner
    <2>5. \A e \in Coros : e # c => (Holds(e, d)' <=> Holds(e, d))
      BY <1>1, <2>1 DEF Types, Holds
    <2>6. Holds(c, d)
      BY <2>1, <2>4, <2>5 DEF Owned
    <2>7. QED
      BY <1>2, <2>3, <2>4, <2>6
  <1>5. CASE NextSource(c)
    <2>1. Callable("info", None, None) /\ req[c].op \notin Opening
      BY <1>5 DEF Callable, OnPath, NextSource, Opening
    <2>2. Holds(c, d)
      BY <1>5, <2>1, SetupLoses DEF NextSource
    <2>3. QED
      BY <1>2, <2>1, <2>2
  <1>6. CASE Discarded(c)
    <2>1. Holds(c, d)
      BY <1>6, ReleaseLoses DEF Discarded
    <2>2. Cancels(c, d)
      BY <1>1, <1>2, <1>6, <2>1 DEF Cancels, Discarded
    <2>3. QED
      BY <2>2 DEF Canceling
  <1>7. QED
    BY <1>3, <1>4, <1>5, <1>6

LEMMA DeferredLoses ==
  ASSUME Core, Pending, NEW c \in Coros, Deferred(c), NEW d \in Descs, Loses(d)
  PROVE  Canceling(d)
  <1>1. Types /\ want[c] \in Wants /\ Ended(c) /\ req[c].st # "queued" /\ co[c] = "deferred"
        /\ os' = os
    BY DEF Core, Types, Deferred, Ended
  <1>2. Holds(c, d)
    <2>1. CASE Setup(c, want[c].op, want[c].file, want[c].src)
      <3>1. want[c].op # "none"
        BY <1>1 DEF Pending
      <3>2. Callable(want[c].op, want[c].file, want[c].src)
        BY <1>1, <3>1, WantFields DEF Callable, Opening, OnFile, OnPath
      <3>3. QED
        BY <1>1, <2>1, <3>2, SetupLoses
    <2>2. CASE req' = [req EXCEPT ![c] = NoReq] /\ UNCHANGED <<obj, desc>>
      BY <1>1, <2>2, ReleaseLoses
    <2>3. QED
      BY <2>1, <2>2 DEF Deferred
  <1>3. req[c].op \in Opening /\ req[c].fd = d
    BY <1>1, <1>2 DEF Holds
  <1>4. Cancels(c, d)
    BY <1>1, <1>3 DEF Cancels
  <1>5. QED
    BY <1>4 DEF Canceling

LEMMA OpenBlockingLoses ==
  ASSUME Core, NEW c \in Coros, NEW f \in Files, OpenBlocking(c, f), NEW d \in Descs
  PROVE  ~Loses(d)
  <1>1. PICK x \in Descs : os' = [os EXCEPT ![x] = f] /\ desc' = [desc EXCEPT ![f] = x]
    BY DEF OpenBlocking
  <1>2. Types /\ desc[f] = None /\ req' = req
    BY DEF Core, Objects, OpenBlocking, NewFile
  <1>3. CASE x = d
    BY <1>1, <1>2, <1>3, KeepsOwners DEF Types, Owned
  <1>4. CASE x # d
    <2>1. os'[d] = os[d] /\ \A g \in Files : desc[g] = d => desc'[g] = d
      BY <1>1, <1>2, <1>4, FilesAssumption DEF Types
    <2>2. QED
      BY <1>2, <2>1, KeepsOwners DEF Owned, Holds
  <1>5. QED
    BY <1>3, <1>4

LEMMA CloseDescLoses ==
  ASSUME Core, NEW f \in Files, obj[f] = "file", CloseDesc(f),
         desc' = desc \/ desc' = [desc EXCEPT ![f] = None], NEW d \in Descs
  PROVE  ~Loses(d)
  <1>1. Types /\ desc[f] \in Descs /\ req' = req
    BY DEF Core, Objects, Types, CloseDesc
  <1>2. CASE d = desc[f]
    <2>1. os'[d] = None
      BY <1>1, <1>2 DEF CloseDesc, Types
    <2>2. QED
      BY <2>1, KeepsOwners
  <1>3. CASE d # desc[f]
    <2>1. os'[d] = os[d] /\ \A g \in Files : desc[g] = d => desc'[g] = d
      BY <1>1, <1>3 DEF CloseDesc, Types
    <2>2. QED
      BY <1>1, <2>1, KeepsOwners DEF Owned, Holds
  <1>4. QED
    BY <1>2, <1>3

(* Whatever fails, a descriptor is lost only with a canceled request: the  *)
(* callback that is awaited gives it to the object, or closes it           *)
(* (returnopenfile, returnmktmp).                                          *)
THEOREM DescriptorsAreLostByCanceled == Spec => LostByCanceled
  <1>1. ASSUME Core, Pending, [Next]_vars, NEW d \in Descs, Loses(d)
        PROVE  Canceling(d)
    <2>1. ASSUME os' = os, desc' = desc, req' = req
          PROVE  FALSE
      BY <1>1, <2>1, KeepsOwners DEF Owned, Holds
    <2>2. ASSUME NEW c \in Coros, NEW op, NEW f, NEW src, Callable(op, f, src),
                 Call(c, op, f, src), os' = os
          PROVE  FALSE
      BY <1>1, <2>2, CallLoses
    <2>3. CASE (LuaNext /\ UNCHANGED fileVars) \/ UNCHANGED vars
      BY <2>1, <2>3 DEF fileVars, vars
    <2>4. ASSUME NEW c \in Coros, FileInfo(c) \/ TouchFile(c) \/ LinkFile(c) \/ MakeDir(c)
          PROVE  FALSE
      <3>1. PICK op \in OnPath : UsePath(c, op)
        BY <2>4 DEF FileInfo, TouchFile, LinkFile, MakeDir, OnPath
      <3>2. Callable(op, None, None)
        BY DEF Callable
      <3>3. QED
        BY <2>2, <3>1, <3>2 DEF UsePath
    <2>5. ASSUME NEW c \in Coros, NEW f \in Files,
                 OpenFile(c, f) \/ MakeTemp(c, f) \/ InfoOrTouch(c, f) \/ CloseFile(c, f)
          PROVE  FALSE
      <3>1. PICK op \in Opening \cup OnFile : Call(c, op, f, None) /\ os' = os
        BY <2>5 DEF OpenFile, MakeTemp, InfoOrTouch, Use, CloseFile, Opening, OnFile
      <3>2. Callable(op, f, None)
        BY DEF Callable
      <3>3. QED
        BY <2>2, <3>1, <3>2
    <2>6. ASSUME NEW c \in Coros, NEW f \in Files, NEW src \in Files \cup {None},
                 ReadOrWrite(c, f, src)
          PROVE  FALSE
      <3>1. Callable("use", f, src)
        BY DEF Callable, OnFile
      <3>2. QED
        BY <2>2, <2>6, <3>1 DEF ReadOrWrite, Use
    <2>7. ASSUME NEW c \in Coros, NEW f \in Files, CloseBlocking(c, f)
          PROVE  FALSE
      BY <1>1, <2>7, CloseDescLoses DEF CloseBlocking, Detach
    <2>8. ASSUME NEW f \in Files, Collect(f) \/ CollectClosed(f)
          PROVE  FALSE
      <3>1. CASE Collect(f)
        BY <1>1, <3>1, CloseDescLoses DEF Collect, Detach
      <3>2. CASE CollectClosed(f)
        BY <2>1, <3>2 DEF CollectClosed
      <3>3. QED
        BY <2>8, <3>1, <3>2
    <2>9. ASSUME NEW c \in Coros, NEW e \in Coros, HaltDeferred(c, e)
          PROVE  FALSE
      BY <2>1, <2>9 DEF HaltDeferred
    <2>10. ASSUME NEW c \in Coros, Work(c) \/ \E f \in Files : OpenBlocking(c, f)
           PROVE  FALSE
      BY <1>1, <2>10, WorkLoses, OpenBlockingLoses
    <2>11. ASSUME NEW c \in Coros,
                  \/ Completed(c) \/ TempCompleted(c) \/ NextSource(c)
                  \/ Discarded(c) \/ Deferred(c)
           PROVE  Canceling(d)
      BY <1>1, <2>11, EndedLoses, DeferredLoses
    <2>12. ASSUME NEW c \in Coros, NEW e \in Coros, Halt(c, e)
           PROVE  Canceling(d)
      BY <1>1, <2>12, HaltLoses
    <2>13. QED
      BY <1>1, <2>3, <2>4, <2>5, <2>6, <2>7, <2>8, <2>9, <2>10, <2>11, <2>12 DEF Next
  <1>2. Core /\ Pending /\ [Next]_vars =>
          [\A d \in Descs : Lost(d)' => Lost(d) \/ \E c \in Coros : Cancels(c, d)]_vars
    BY <1>1 DEF Loses, Canceling
  <1>3. Spec => [](Core /\ Pending)
    <2>1. Inv /\ Pending /\ [Next]_vars => (Inv /\ Pending)'
      BY InvKept, PendingKept DEF Inv, Core
    <2>2. Inv /\ Pending => Core /\ Pending
      BY DEF Inv
    <2>3. QED
      BY <2>1, <2>2, InvInit, PTL DEF Spec
  <1>4. QED
    BY <1>2, <1>3, PTL DEF Spec, LostByCanceled

=============================================================================
