----------------------------- MODULE FileActivity -----------------------------
(***************************************************************************)
(* What the File Activity view makes of the target's file calls            *)
(* (BuildFileActivitySnapshot in gui.cpp): the handles it follows, the     *)
(* files it reconstructs from captured writes, and which of them it calls  *)
(* complete.                                                               *)
(*                                                                         *)
(* Beside the view stands what it is about: the files and the handles of   *)
(* the target.  A call and its report are one step: reports are taken to   *)
(* arrive in the order of the calls, as those of one thread do.  The view  *)
(* is rebuilt from the list of events in every frame; its loop only looks  *)
(* back through its maps, so that seen stands for the loop's state at the  *)
(* end of the list.                                                        *)
(*                                                                         *)
(* A file's content is a sequence of units.  Left out of the view:         *)
(* exclusions, hashes, histories, mapping handles, ETW rows and the 64 MiB *)
(* limit; of the target: native calls, copies, replacements, handles that  *)
(* only append, and writes that transfer less than they were asked to.     *)
(***************************************************************************)
EXTENDS Integers, Sequences, FiniteSets

CONSTANTS
    Paths,           \* names of files
    Handles,         \* values of handles, used again after they are closed
    Chunks,          \* what may be written at once
    CaptureLimit,    \* kMaximumFileBufferCapture
    MaxCalls,        \* bound: file calls
    MaxSize          \* bound: length of a file

NoPath == "-"

ASSUME FileAssumption ==
    /\ NoPath \notin Paths
    /\ Chunks \subseteq Seq(Nat) /\ <<>> \notin Chunks
    /\ CaptureLimit \in Nat \ {0} /\ MaxCalls \in Nat /\ MaxSize \in Nat

Absent == <<-1>>
Nothing == [api |-> "none"]

VARIABLES
    content,         \* what stands in each file
    open,            \* what each handle is open for: a path, or NoPath
    pos,             \* the file pointer of each handle
    calls,           \* number of calls made
    seen,            \* handlePath, handlePosition and reconstructedMap
    older,           \* files that hold something of before the first report
    mistaken         \* files that the view's loop is known to get wrong

target   == <<content, open, pos, calls>>
unknown  == <<older, mistaken>>
fileVars == <<target, seen, unknown>>

FileInit ==
    /\ content \in [Paths -> {Absent, <<0>>}]
    /\ open = [h \in Handles |-> NoPath] /\ pos = [h \in Handles |-> 0]
    /\ calls = 0
    /\ seen = [path |-> [h \in Handles |-> NoPath], pos |-> [h \in Handles |-> 0],
               recon |-> [p \in Paths |-> Nothing]]
    /\ older = {p \in Paths : content[p] # Absent} /\ mistaken = {}

\* data with a chunk put at an offset, and zeros in a gap before it.
Patch(data, offset, chunk) ==
    LET size == IF Len(data) > offset + Len(chunk) THEN Len(data) ELSE offset + Len(chunk)
    IN  [i \in 1..size |-> IF i \in offset + 1 .. offset + Len(chunk) THEN chunk[i - offset]
                           ELSE IF i <= Len(data) THEN data[i] ELSE 0]
\* data cut, or filled with zeros, to a size.
Resize(data, size) == [i \in 1..size |-> IF i <= Len(data) THEN data[i] ELSE 0]

\* What a report carries of the data.
Captured(chunk) ==
    [i \in 1..(IF Len(chunk) < CaptureLimit THEN Len(chunk) ELSE CaptureLimit) |-> chunk[i]]

-----------------------------------------------------------------------------
(* The loop of BuildFileActivitySnapshot over the reported calls.          *)

Tracks(h) == seen.path[h] # NoPath
Fresh == [api |-> "recon", data |-> <<>>, complete |-> TRUE]

\* Variant of SeeCreate: the reconstruction survives an overwritten file.
SeeCreateKeeps(e) ==
    seen' = IF e.ok THEN [seen EXCEPT !.path[e.h] = e.path, !.pos[e.h] = 0] ELSE seen
SeeCreate(e) ==
    seen' = IF ~e.ok THEN seen
            ELSE [seen EXCEPT !.path[e.h] = e.path, !.pos[e.h] = 0,
                              !.recon[e.path] = IF e.how = "always" THEN Nothing ELSE @]

\* CreateFileMapping starts with "CreateFile": the handle of the file is
\* taken for its result.
SeeMapping(e) == seen' = IF Tracks(e.h) THEN [seen EXCEPT !.pos[e.h] = 0] ELSE seen

\* A write goes where the view believes the handle's pointer to be, unless it
\* states its offset, which only overlapped writes do.
SeeWrite(e) ==
    LET p == seen.path[e.h]
        before == IF seen.recon[p] = Nothing THEN Fresh ELSE seen.recon[p]
        offset == IF e.overlapped THEN e.offset ELSE seen.pos[e.h]
    IN  seen' = IF p = NoPath THEN seen
                ELSE [seen EXCEPT
                        !.pos[e.h] = offset + e.size,
                        !.recon[p] = [before EXCEPT
                            !.data = Patch(@, offset, e.data),
                            !.complete = /\ @ /\ offset <= Len(before.data)
                                         /\ ~e.overlapped /\ Len(e.data) = e.size]]

SeeSeek(e) == seen' = [seen EXCEPT !.pos[e.h] = e.offset]

SeeSetEnd(e) ==
    LET p == seen.path[e.h]
    IN  seen' = IF p = NoPath \/ seen.recon[p] = Nothing THEN seen
                ELSE [seen EXCEPT !.recon[p].data = Resize(@, seen.pos[e.h])]

SeeMove(e) ==
    LET moved == [seen EXCEPT !.path =
                    [h \in Handles |-> IF @[h] = e.path THEN e.to ELSE @[h]]]
    IN  seen' = IF seen.recon[e.path] = Nothing THEN moved
                ELSE [moved EXCEPT !.recon[e.to] = seen.recon[e.path], !.recon[e.path] = Nothing]

\* Variant of SeeClose: the pointer's map forgets the handle, the paths' not.
SeeCloseKeepsPath(e) == seen' = [seen EXCEPT !.pos[e.h] = 0]
SeeClose(e) ==
    seen' = IF Tracks(e.h) THEN [seen EXCEPT !.path[e.h] = NoPath, !.pos[e.h] = 0] ELSE seen

\* The reconstructions of deleted files stay; reads move no pointer.
See(e) ==
    \/ e.api = "create" /\ SeeCreate(e)
    \/ e.api = "mapping" /\ SeeMapping(e)
    \/ e.api = "write" /\ SeeWrite(e)
    \/ e.api = "seek" /\ SeeSeek(e)
    \/ e.api = "set end" /\ SeeSetEnd(e)
    \/ e.api = "move" /\ SeeMove(e)
    \/ e.api = "close" /\ SeeClose(e)
    \/ e.api \in {"read", "delete"} /\ UNCHANGED seen

-----------------------------------------------------------------------------
(* The target's calls.  Their reports determine every content that is not  *)
(* older than the first of them, and every pointer: a read reports what it *)
(* transferred, a seek its distance and its origin.  A file of which the   *)
(* view's loop does not follow them is mistaken until it begins anew.      *)

Call(e) == calls < MaxCalls /\ calls' = calls + 1 /\ See(e)

InUse(p) == \E h \in Handles : open[h] = p
Rebuilt(p) == seen.recon[p] # Nothing
Misplaced(h) == seen.pos[h] # pos[h]

\* A file that begins anew is mistaken when the view goes on with an earlier
\* reconstruction: it forgets that only when the call may overwrite.
Create(h, p, how) ==
    LET empties == how = "always" \/ content[p] = Absent
        stale   == how # "always" /\ Rebuilt(p)
    IN  /\ open[h] = NoPath
        /\ how = "new" => content[p] = Absent
        /\ how = "existing" => content[p] # Absent
        /\ open' = [open EXCEPT ![h] = p] /\ pos' = [pos EXCEPT ![h] = 0]
        /\ content' = [content EXCEPT ![p] = IF empties THEN <<>> ELSE @]
        /\ Call([api |-> "create", h |-> h, path |-> p, how |-> how, ok |-> TRUE])
        /\ older' = IF empties THEN older \ {p} ELSE older
        /\ mistaken' = IF ~empties THEN mistaken
                      ELSE IF stale THEN mistaken \cup {p} ELSE mistaken \ {p}

\* Another handle keeps the file from being overwritten.
CreateFails(h, p) ==
    /\ open[h] = p
    /\ Call([api |-> "create", h |-> h, path |-> p, how |-> "always", ok |-> FALSE])
    /\ UNCHANGED <<content, open, pos, unknown>>

Write(h, chunk, at, overlapped) ==
    LET p == open[h]
    IN  /\ p # NoPath /\ at + Len(chunk) <= MaxSize
        /\ overlapped \/ at = pos[h]
        /\ content' = [content EXCEPT ![p] = Patch(@, at, chunk)]
        /\ pos' = [pos EXCEPT ![h] = at + Len(chunk)]
        /\ Call([api |-> "write", h |-> h, overlapped |-> overlapped, offset |-> at,
                 size |-> Len(chunk), data |-> Captured(chunk)])
        /\ mistaken' = IF ~overlapped /\ Misplaced(h) THEN mistaken \cup {p} ELSE mistaken
        /\ UNCHANGED <<open, older>>

\* After a read, and after a call that the view takes for something else, the
\* pointer of the handle is not where the view believes it to be.
Read(h) ==
    /\ open[h] # NoPath /\ pos[h] < Len(content[open[h]])
    /\ pos' = [pos EXCEPT ![h] = @ + 1]
    /\ Call([api |-> "read", h |-> h])
    /\ UNCHANGED <<content, open, unknown>>
Mapping(h) ==
    /\ open[h] # NoPath
    /\ Call([api |-> "mapping", h |-> h])
    /\ UNCHANGED <<content, open, pos, unknown>>
\* NewFilePointer, all that the view reads of a seek, is 0 unless the caller
\* asks for it.
Seek(h, to, told) ==
    /\ open[h] # NoPath /\ to # pos[h]
    /\ pos' = [pos EXCEPT ![h] = to]
    /\ Call([api |-> "seek", h |-> h, offset |-> IF told THEN to ELSE 0])
    /\ UNCHANGED <<content, open, unknown>>

\* An extension of an empty file is no write: nothing is reconstructed.
SetEnd(h) ==
    LET p == open[h]
        wrong == IF Rebuilt(p) THEN Misplaced(h) ELSE content[p] = <<>>
    IN  /\ p # NoPath /\ pos[h] # Len(content[p])
        /\ content' = [content EXCEPT ![p] = Resize(@, pos[h])]
        /\ Call([api |-> "set end", h |-> h])
        /\ older' = IF pos[h] = 0 THEN older \ {p} ELSE older
        /\ mistaken' = IF wrong THEN mistaken \cup {p}
                      ELSE IF pos[h] = 0 THEN mistaken \ {p} ELSE mistaken
        /\ UNCHANGED <<open, pos>>

\* The destination keeps its own reconstruction when the source has none.
Move(p, q) ==
    LET wrong == p \in mistaken \/ (~Rebuilt(p) /\ Rebuilt(q))
    IN  /\ p # q /\ content[p] # Absent /\ ~InUse(q)
        /\ content' = [content EXCEPT ![q] = content[p], ![p] = Absent]
        /\ open' = [h \in Handles |-> IF open[h] = p THEN q ELSE open[h]]
        /\ Call([api |-> "move", path |-> p, to |-> q])
        /\ older' = (older \ {p, q}) \cup IF p \in older THEN {q} ELSE {}
        /\ mistaken' = (mistaken \ {p, q}) \cup IF wrong THEN {q} ELSE {}
        /\ UNCHANGED pos
Delete(p) ==
    /\ content[p] # Absent /\ ~InUse(p)
    /\ content' = [content EXCEPT ![p] = Absent]
    /\ Call([api |-> "delete"])
    /\ older' = older \ {p} /\ mistaken' = mistaken \ {p}
    /\ UNCHANGED <<open, pos>>
Close(h) ==
    /\ open[h] # NoPath
    /\ open' = [open EXCEPT ![h] = NoPath] /\ pos' = [pos EXCEPT ![h] = 0]
    /\ Call([api |-> "close", h |-> h])
    /\ UNCHANGED <<content, unknown>>

FileNext ==
    \/ \E h \in Handles, p \in Paths :
          \/ \E how \in {"new", "always", "existing", "open always"} : Create(h, p, how)
          \/ CreateFails(h, p)
    \/ \E h \in Handles :
          \/ \E chunk \in Chunks, at \in 0..MaxSize, overlapped \in BOOLEAN :
                Write(h, chunk, at, overlapped)
          \/ \E to \in 0..MaxSize, told \in BOOLEAN : Seek(h, to, told)
          \/ Read(h) \/ Mapping(h) \/ SetEnd(h) \/ Close(h)
    \/ \E p, q \in Paths : Move(p, q)
    \/ \E p \in Paths : Delete(p)

FileSpec == FileInit /\ [][FileNext]_fileVars

-----------------------------------------------------------------------------
\* Four things go wrong in the view's loop: it writes, and cuts, where it
\* believes a pointer to be that a read, a mapping or a seek has moved; it goes
\* on with the reconstruction of a deleted file in a new one of its name; it
\* sees no content in an empty file that is extended; and it leaves a replaced
\* file's reconstruction to an empty one moved over it.  Nothing else does,
\* however calls, handles and names are mixed: every other file with content
\* is reconstructed, and what is called complete is what stands in it.
ReconstructionExact ==
    \A p \in Paths \ (older \cup mistaken) : content[p] # Absent =>
        /\ content[p] # <<>> => seen.recon[p] # Nothing
        /\ seen.recon[p] # Nothing /\ seen.recon[p].complete =>
              seen.recon[p].data = content[p]

\* What the File Activity view says of a file (gui.cpp:16445 "Complete"): that
\* the reconstruction so called is what stands in the file, when everything in
\* it has been written under the view's eyes.
CompleteIsTrue ==
    \A p \in Paths \ older :
        /\ content[p] # Absent /\ seen.recon[p] # Nothing
        /\ seen.recon[p].complete
        => seen.recon[p].data = content[p]

=============================================================================
