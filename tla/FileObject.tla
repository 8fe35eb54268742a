----------------------------- MODULE FileObject ----------------------------
(***************************************************************************)
(* The files of src/lfilef.c: objects with a descriptor of the system, used *)
(* by the requests that coroutines make to the threads of libuv.           *)
(*                                                                         *)
(* A request has the descriptor its file had when the request was set up.  *)
(* The descriptor is given to the object only in the callback of the open, *)
(* and is taken from it when the close is requested, or when a close in    *)
(* the calling thread succeeds.  The system gives a descriptor that was    *)
(* closed to the next file opened.  A write may have a second file as the  *)
(* source of the data.  The operations on paths have no descriptor, but    *)
(* use the same request of the coroutine.                                  *)
(***************************************************************************)
EXTENDS LuaThreads

CONSTANTS
  Files,  \* objects
  Descs   \* descriptors of the system

ASSUME FilesAssumption == None \notin Files \cup Descs

VARIABLES
  obj,   \* life of the objects
  desc,  \* descriptor in the object, None (-1) if it has none
  os,    \* the file opened with each descriptor, None if it is not open
  req,   \* request of each coroutine (one at a time, see CoOperation)
  want,  \* what a coroutine in k_resetopk will request
  failed \* history: a close in the calling thread gave an error

fileVars == <<obj, desc, os, req, want, failed>>
vars == <<threadVars, fileVars>>

(* Operations that get a new descriptor, that use the one of a file, and   *)
(* that have none.  The operation "use" stands for the ones on open files. *)
Opening == {"open", "temp"}
OnFile == {"use", "close"}
OnPath == {"info", "path"}

(* Stages of a request. *)
Stages == {"queued", "done", "canceled"}
NoReq == [op |-> "none", file |-> None, fd |-> None,
          src |-> None, srcfd |-> None, st |-> "none"]
NoCall == [op |-> "none", file |-> None, src |-> None]

Init ==
  /\ ThreadsInit
  /\ obj = [f \in Files |-> "none"] /\ desc = [f \in Files |-> None]
  /\ os = [d \in Descs |-> None] /\ failed = FALSE
  /\ req = [c \in Coros |-> NoReq] /\ want = [c \in Coros |-> NoCall]

-----------------------------------------------------------------------------
(* Mutant: the setup does not check the file. *)
SetupFails_Never(op, f) == FALSE

(* openedfile, called by the setup: f may have been closed since the call. *)
SetupFails(op, f) == op \in OnFile /\ desc[f] = None

(* The descriptor of a file is checked, but not the one of the source src  *)
(* of a write, which is None (-1) if the source was closed (callwrite).    *)
Request(op, f, src) ==
  [op |-> op, file |-> f, fd |-> IF op \in OnFile THEN desc[f] ELSE None,
   src |-> src, srcfd |-> IF src \in Files THEN desc[src] ELSE None, st |-> "queued"]

(* Mutant: the object keeps its descriptor until it is closed. *)
Setup_Kept(c, op, f, src) ==
  /\ ~SetupFails(op, f)
  /\ req' = [req EXCEPT ![c] = Request(op, f, src)]
  /\ UNCHANGED <<obj, desc>>

(* k_setupfile, k_setupclosef, k_setupreadfile and the others like it. *)
Setup(c, op, f, src) ==
  /\ ~SetupFails(op, f)
  /\ req' = [req EXCEPT ![c] = Request(op, f, src)]
  /\ IF op = "close"
       THEN desc' = [desc EXCEPT ![f] = None] /\ obj' = [obj EXCEPT ![f] = "closed"]
       ELSE UNCHANGED <<obj, desc>>

(* An operation is called: it starts its request, or waits for the one its *)
(* coroutine left pending.                                                 *)
Call(c, op, f, src) ==
  \/ /\ req[c] = NoReq
     /\ Setup(c, op, f, src)
     /\ Exit(c, "request")
     /\ UNCHANGED want
  \/ /\ req[c] # NoReq
     /\ want' = [want EXCEPT ![c] = [op |-> op, file |-> f, src |-> src]]
     /\ Exit(c, "deferred")
     /\ UNCHANGED <<obj, desc, req>>

(* An object that was not opened; it takes the place of one whose open did *)
(* not succeed, or that was collected.                                     *)
NewFile(f) ==
  /\ obj[f] = "none"
  /\ \A c \in Coros : f \notin {req[c].file, req[c].src, want[c].file, want[c].src}

(* system.openfile *)
OpenFile(c, f) ==
  /\ Running(c) /\ NewFile(f)
  /\ Call(c, "open", f, None)
  /\ UNCHANGED <<os, failed>>

(* system.maketemp that creates a file; f is the object it may return. *)
MakeTemp(c, f) ==
  /\ Running(c) /\ NewFile(f)
  /\ Call(c, "temp", f, None)
  /\ UNCHANGED <<os, failed>>

(* system.openfile in blocking mode, when it succeeds. *)
OpenBlocking(c, f) ==
  /\ Running(c) /\ NewFile(f)
  /\ \E d \in Descs :
       /\ os[d] = None
       /\ os' = [os EXCEPT ![d] = f] /\ desc' = [desc EXCEPT ![f] = d]
  /\ obj' = [obj EXCEPT ![f] = "file"]
  /\ UNCHANGED <<req, want, failed, threadVars>>

Use(c, f, src) ==
  /\ Running(c) /\ obj[f] = "file"
  /\ Call(c, "use", f, src)
  /\ UNCHANGED <<os, failed>>

(* file:read, file:resize, file:flush, and file:write of what is not a     *)
(* file (src = None), or of a file the program refers to, open or closed.  *)
ReadOrWrite(c, f, src) ==
  /\ src \in Files => obj[src] \in {"file", "closed"}
  /\ Use(c, f, src)

(* file:info, file:touch, file:own and file:grant. *)
InfoOrTouch(c, f) == Use(c, f, None)

(* Operations on paths. *)
UsePath(c, op) ==
  /\ Running(c)
  /\ Call(c, op, None, None)
  /\ UNCHANGED <<os, failed>>

FileInfo(c) == UsePath(c, "info")

(* system.touchfile, system.ownfile and system.grantfile. *)
TouchFile(c) == UsePath(c, "path")

(* system.linkfile, system.movefile, system.copyfile and system.removefile. *)
LinkFile(c) == UsePath(c, "path")

(* system.makedir, and system.maketemp that creates a directory. *)
MakeDir(c) == UsePath(c, "path")

(* file:close *)
CloseFile(c, f) ==
  /\ Running(c) /\ obj[f] = "file"
  /\ Call(c, "close", f, None)
  /\ UNCHANGED <<os, failed>>

(* uv_fs_close in the calling thread.  The system frees the number even if *)
(* it reports an error (EIO, on Linux), whatever file has the number now.  *)
CloseDesc(f) ==
  /\ os' = [os EXCEPT ![desc[f]] = None]
  /\ UNCHANGED <<req, want, threadVars>>

(* The object no longer has a descriptor. *)
Detach(f, life) ==
  /\ desc' = [desc EXCEPT ![f] = None]
  /\ obj' = [obj EXCEPT ![f] = life]

(* file:close in blocking mode, and file_gc as __close: it succeeds, or it *)
(* fails (it must, if the number is not open) and the object keeps it.     *)
CloseBlocking(c, f) ==
  /\ Running(c) /\ obj[f] = "file"
  /\ CloseDesc(f)
  /\ \/ os[desc[f]] # None /\ Detach(f, "closed") /\ UNCHANGED failed
     \/ failed' = TRUE /\ UNCHANGED <<obj, desc>>

(* The file is in the stack of a coroutine that awaits its operation. *)
Awaited(f) ==
  \E c \in Coros : \/ co[c] = "request" /\ f \in {req[c].file, req[c].src}
                   \/ co[c] = "deferred" /\ f \in {want[c].file, want[c].src}

(* Mutant: a file is collected whatever awaits it. *)
Collect_Awaited(f) ==
  /\ obj[f] = "file"
  /\ CloseDesc(f) /\ Detach(f, "none")
  /\ UNCHANGED failed

(* file_gc, when the program no longer refers to the file.  Its error is a *)
(* warning, and the number that remains in the object is lost with it.     *)
Collect(f) ==
  /\ obj[f] = "file" /\ ~Awaited(f)
  /\ CloseDesc(f) /\ Detach(f, "none")
  /\ UNCHANGED failed

(* The same, of a file that was closed. *)
CollectClosed(f) ==
  /\ obj[f] = "closed" /\ ~Awaited(f)
  /\ obj' = [obj EXCEPT ![f] = "none"]
  /\ UNCHANGED <<desc, os, req, want, failed, threadVars>>

-----------------------------------------------------------------------------
(* A thread of libuv executes the request of c: open fails, or gives a     *)
(* descriptor that is not in use; close frees the number, even if it       *)
(* fails.                                                                  *)
Work(c) ==
  /\ req[c].st = "queued"
  /\ \/ /\ req[c].op \in Opening
        /\ \/ \E d \in Descs :
                /\ os[d] = None
                /\ os' = [os EXCEPT ![d] = req[c].file]
                /\ req' = [req EXCEPT ![c].fd = d, ![c].st = "done"]
           \/ req' = [req EXCEPT ![c].st = "done"] /\ UNCHANGED os
     \/ /\ req[c].op = "close"
        /\ os' = [os EXCEPT ![req[c].fd] = None]
        /\ req' = [req EXCEPT ![c].st = "done"]
     \/ /\ req[c].op \notin Opening \cup {"close"}
        /\ req' = [req EXCEPT ![c].st = "done"]
        /\ UNCHANGED os
  /\ UNCHANGED <<obj, desc, want, failed, threadVars>>

(* coroutine.resume(d) of a coroutine in k_endop: uv_cancel succeeds only  *)
(* if no thread started the request.                                       *)
Halt(c, d) ==
  /\ Running(c) /\ co[d] = "request"
  /\ Enter(d, stack)
  /\ \/ /\ req[d].st = "queued"
        /\ req' = [req EXCEPT ![d].st = "canceled"]
     \/ UNCHANGED req
  /\ UNCHANGED <<obj, desc, os, want, failed>>

(* coroutine.resume(d) of a coroutine in k_resetopk. *)
HaltDeferred(c, d) ==
  /\ Running(c) /\ co[d] = "deferred"
  /\ Enter(d, stack)
  /\ want' = [want EXCEPT ![d] = NoCall]
  /\ UNCHANGED <<obj, desc, os, req, failed>>

Ended(c) == Idle /\ req[c].st \in {"done", "canceled"}

(* on_fileopen and on_fileopdone when the coroutine awaits: returnopenfile *)
(* gives the descriptor to the object.                                     *)
Completed(c) ==
  /\ Ended(c) /\ co[c] = "request"
  /\ LET f == req[c].file
         opened == req[c].op \in Opening /\ req[c].fd # None
     IN  /\ desc' = IF opened THEN [desc EXCEPT ![f] = req[c].fd] ELSE desc
         /\ obj' = IF opened THEN [obj EXCEPT ![f] = "file"] ELSE obj
  /\ req' = [req EXCEPT ![c] = NoReq]
  /\ Enter(c, stack)
  /\ UNCHANGED <<os, want, failed>>

(* Mutant: the file that is not to be returned is not closed. *)
TempCompleted_Open(c) ==
  /\ Ended(c) /\ co[c] = "request"
  /\ req[c].op = "temp" /\ req[c].fd # None
  /\ req' = [req EXCEPT ![c] = NoReq]
  /\ Enter(c, stack)
  /\ UNCHANGED <<obj, desc, os, want, failed>>

(* on_fileinfo when the coroutine awaits a file of system.maketemp that is *)
(* not to be returned: returnmktmp closes it.                              *)
TempCompleted(c) ==
  /\ Ended(c) /\ co[c] = "request"
  /\ req[c].op = "temp" /\ req[c].fd # None
  /\ os' = [os EXCEPT ![req[c].fd] = None]
  /\ req' = [req EXCEPT ![c] = NoReq]
  /\ Enter(c, stack)
  /\ UNCHANGED <<obj, desc, want, failed>>

(* on_fileinfo when the coroutine awaits in system.fileinfo, and there are *)
(* other sources of information: returnfileinfo makes another request.     *)
NextSource(c) ==
  /\ Ended(c) /\ co[c] = "request" /\ req[c].op = "info"
  /\ Setup(c, "info", None, None)
  /\ UNCHANGED <<os, want, failed, threadVars>>

(* The callback of a request whose coroutine was resumed, and which awaits *)
(* nothing: the result is discarded, even if it is a descriptor.           *)
Discarded(c) ==
  /\ Ended(c) /\ co[c] \notin {"request", "deferred"}
  /\ req' = [req EXCEPT ![c] = NoReq]
  /\ UNCHANGED <<obj, desc, os, want, failed, threadVars>>

(* The same, when the coroutine awaits to start another request: the setup *)
(* is done in the callback, and its error resumes the coroutine.           *)
Deferred(c) ==
  /\ Ended(c) /\ co[c] = "deferred"
  /\ \/ /\ Setup(c, want[c].op, want[c].file, want[c].src)
        /\ co' = [co EXCEPT ![c] = "request"]
        /\ UNCHANGED stack
     \/ /\ SetupFails(want[c].op, want[c].file)
        /\ req' = [req EXCEPT ![c] = NoReq]
        /\ Enter(c, stack)
        /\ UNCHANGED <<obj, desc>>
  /\ want' = [want EXCEPT ![c] = NoCall]
  /\ UNCHANGED <<os, failed>>

-----------------------------------------------------------------------------
Next ==
  \/ LuaNext /\ UNCHANGED fileVars
  \/ \E c \in Coros :
       \/ Work(c) \/ Completed(c) \/ TempCompleted(c) \/ NextSource(c)
       \/ Discarded(c) \/ Deferred(c)
       \/ FileInfo(c) \/ TouchFile(c) \/ LinkFile(c) \/ MakeDir(c)
       \/ \E f \in Files : \/ OpenFile(c, f) \/ OpenBlocking(c, f) \/ MakeTemp(c, f)
                           \/ InfoOrTouch(c, f)
                           \/ \E src \in Files \cup {None} : ReadOrWrite(c, f, src)
                           \/ CloseFile(c, f) \/ CloseBlocking(c, f)
       \/ \E d \in Coros : Halt(c, d) \/ HaltDeferred(c, d)
  \/ \E f \in Files : Collect(f) \/ CollectClosed(f)

Spec == Init /\ [][Next]_vars

-----------------------------------------------------------------------------
(* Type correctness of the state: a request on a file has the descriptor   *)
(* of that file (openedfile), whenever it is set up; the source of a write *)
(* may have none.                                                          *)
TypeOK ==
  /\ co \in [Coros -> {"suspended", "running", "request", "deferred"}]
  /\ stack \in Seq([at: {"lua"}, co: Coros])
  /\ obj \in [Files -> {"none", "file", "closed"}]
  /\ desc \in [Files -> Descs \cup {None}]
  /\ os \in [Descs -> Files \cup {None}]
  /\ req \in [Coros -> {NoReq}
       \cup [op: Opening, file: Files, fd: Descs \cup {None},
             src: {None}, srcfd: {None}, st: Stages]
       \cup [op: OnFile, file: Files, fd: Descs,
             src: Files \cup {None}, srcfd: Descs \cup {None}, st: Stages]
       \cup [op: OnPath, file: {None}, fd: {None},
             src: {None}, srcfd: {None}, st: Stages]]
  /\ want \in [Coros -> {NoCall}
       \cup [op: Opening, file: Files, src: {None}]
       \cup [op: OnFile, file: Files, src: Files \cup {None}]
       \cup [op: OnPath, file: {None}, src: {None}]]
  /\ failed \in BOOLEAN

(* Who is to close the descriptor d: an object, the request that opened it *)
(* and was not completed, or the request that will close it.               *)
Owners(d) ==
  {f \in Files : desc[f] = d} \cup
  {c \in Coros : /\ req[c].fd = d
                 /\ \/ req[c].op \in Opening /\ req[c].st = "done"
                    \/ req[c].op = "close" /\ req[c].st = "queued"}

(* As long as no close in the calling thread fails, a descriptor is closed *)
(* once, by the only one that has it, and an object has the descriptor of  *)
(* its own file (returnopenfile, k_setupclosef, file_gc).                  *)
DescriptorsOwned ==
  ~failed => \A d \in Descs :
    /\ os[d] = None => Owners(d) = {}
    /\ \A x, y \in Owners(d) : x = y
    /\ \A f \in Files : desc[f] = d => os[d] = f /\ obj[f] = "file"

(* As long as no close in the calling thread fails, whoever awaits an      *)
(* operation on a file uses that file, and so with the source of a write   *)
(* that was open, unless the program closes it: a file in the stack of a   *)
(* coroutine that awaits is not collected (file_gc).                       *)
UsesOwnFile ==
  ~failed => \A c \in Coros :
    co[c] = "request" /\ req[c].op = "use" /\ req[c].st = "queued" =>
      /\ obj[req[c].file] # "closed" => os[req[c].fd] = req[c].file
      /\ req[c].srcfd # None /\ obj[req[c].src] # "closed" => os[req[c].srcfd] = req[c].src

(* An open descriptor that nobody is to close. *)
Lost(d) == os[d] # None /\ Owners(d) = {}

(* The step cancels a request to close d before a thread starts it, or is  *)
(* the callback of a request that opened d and that nobody awaits.         *)
Cancels(c, d) ==
  /\ req[c].fd = d
  /\ \/ req[c].op = "close" /\ req[c].st = "queued" /\ req'[c].st = "canceled"
     \/ req[c].op \in Opening /\ co[c] # "request" /\ Ended(c)

(* Whatever fails, a descriptor is lost only with a canceled request: an   *)
(* open that is awaited gives its descriptor to the object, or closes it   *)
(* (returnopenfile, returnmktmp).                                          *)
LostByCanceled ==
  [][\A d \in Descs : Lost(d)' => Lost(d) \/ \E c \in Coros : Cancels(c, d)]_vars

(* Files are closed when they are collected, and are not closed twice: an  *)
(* open descriptor has exactly one that is to close it.  It does not hold: *)
(* a close in the calling thread that fails leaves the number in the       *)
(* object (file_close, file_gc), and the system gives it to another file;  *)
(* and descriptors are lost as LostByCanceled says.                        *)
OneOwner ==
  \A d \in Descs : os[d] # None => \E x \in Files \cup Coros : Owners(d) = {x}

=============================================================================
