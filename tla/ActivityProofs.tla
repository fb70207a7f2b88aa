--------------------------- MODULE ActivityProofs ---------------------------
(***************************************************************************)
(* What FileActivity calls complete is what stands in the file, for any    *)
(* files, handles, data and capture limit; what ProcessActivity is told of *)
(* a process stands in one row, for any pids and any two seconds; and what *)
(* RegistryActivity shows of a key or a value is so, for any threads,      *)
(* handles and keys.                                                       *)
(***************************************************************************)
EXTENDS ActivityViews, InductionLemmas, SequenceTheorems

Recon == [api : {"recon"}, data : Seq(Nat), complete : BOOLEAN]

FileTypes ==
    /\ content \in [Paths -> Seq(Nat) \cup {Absent}]
    /\ open \in [Handles -> Paths \cup {NoPath}]
    /\ pos \in [Handles -> Nat]
    /\ seen \in [path : [Handles -> Paths \cup {NoPath}], pos : [Handles -> Nat],
                 recon : [Paths -> Recon \cup {Nothing}]]

\* The view follows every handle to its file, and what is open is there.
Followed ==
    \A h \in Handles :
        /\ seen.path[h] = open[h]
        /\ open[h] \in Paths => content[open[h]] # Absent

\* What ReconstructionExact says of one file.
Exact(p) ==
    content[p] # Absent =>
        /\ content[p] # <<>> => seen.recon[p] # Nothing
        /\ seen.recon[p] # Nothing /\ seen.recon[p].complete =>
              seen.recon[p].data = content[p]

FileInv == FileTypes /\ Followed /\ ReconstructionExact

-----------------------------------------------------------------------------
(* The operators on data.                                                  *)

LEMMA PatchType ==
    ASSUME NEW data \in Seq(Nat), NEW offset \in Nat, NEW chunk \in Seq(Nat)
    PROVE  Patch(data, offset, chunk) \in Seq(Nat)
<1> DEFINE size == IF Len(data) > offset + Len(chunk) THEN Len(data) ELSE offset + Len(chunk)
           elem(i) == IF i \in offset + 1 .. offset + Len(chunk) THEN chunk[i - offset]
                      ELSE IF i <= Len(data) THEN data[i] ELSE 0
<1>1. size \in Nat
  OBVIOUS
<1>2. ASSUME NEW i \in 1..size PROVE elem(i) \in Nat
  <2>1. CASE i \in offset + 1 .. offset + Len(chunk)
    <3>1. i - offset \in 1..Len(chunk)
      BY <2>1
    <3> QED BY <2>1, <3>1
  <2>2. CASE i \notin offset + 1 .. offset + Len(chunk) /\ i <= Len(data)
    <3>1. i \in 1..Len(data)
      BY <2>2, <1>1
    <3> QED BY <2>2, <3>1
  <2> QED BY <2>1, <2>2
<1> HIDE DEF size, elem
<1>3. [i \in 1..size |-> elem(i)] \in Seq(Nat)
  BY <1>1, <1>2
<1> QED BY <1>3 DEF Patch, size, elem

LEMMA ResizeType ==
    ASSUME NEW data \in Seq(Nat), NEW size \in Nat
    PROVE  Resize(data, size) \in Seq(Nat)
<1>1. ASSUME NEW i \in 1..size PROVE (IF i <= Len(data) THEN data[i] ELSE 0) \in Nat
  <2>1. CASE i <= Len(data)
    <3>1. i \in 1..Len(data)
      BY <2>1
    <3> QED BY <2>1, <3>1
  <2> QED BY <2>1
<1> QED BY <1>1 DEF Resize

\* A report that carries as much as was written carries what was written.
LEMMA CapturedAll ==
    ASSUME NEW chunk \in Seq(Nat)
    PROVE  /\ Captured(chunk) \in Seq(Nat)
           /\ Len(Captured(chunk)) = Len(chunk) => Captured(chunk) = chunk
<1> DEFINE n == IF Len(chunk) < CaptureLimit THEN Len(chunk) ELSE CaptureLimit
<1>1. n \in Nat /\ n <= Len(chunk)
  BY FileAssumption
<1> HIDE DEF n
<1>2. Captured(chunk) = [i \in 1..n |-> chunk[i]]
  BY DEF Captured, n
<1>3. \A i \in 1..n : chunk[i] \in Nat
  BY <1>1
<1>4. Captured(chunk) \in Seq(Nat) /\ Len(Captured(chunk)) = n
  BY <1>1, <1>2, <1>3
<1>5. ASSUME n = Len(chunk) PROVE Captured(chunk) = chunk
  <2>1. chunk = [i \in 1..Len(chunk) |-> chunk[i]]
    OBVIOUS
  <2> QED BY <2>1, <1>2, <1>5
<1> QED BY <1>4, <1>5

\* Absent is no sequence of units, and no reconstruction is Nothing.
LEMMA MarksDiffer ==
    /\ Absent \notin Seq(Nat) /\ <<>> \in Seq(Nat) /\ NoPath \notin Paths
    /\ Nothing \notin Recon /\ Fresh \in Recon
    /\ Fresh.data = <<>> /\ Fresh.complete = TRUE
<1>1. Absent \notin Seq(Nat)
  <2>1. Len(Absent) = 1 /\ Absent[1] = -1
    BY DEF Absent
  <2>2. ASSUME Absent \in Seq(Nat) PROVE FALSE
    <3>1. ASSUME NEW s \in Seq(Nat), Len(s) = 1 PROVE s[1] \in Nat
      <4>1. 1 \in 1..Len(s)
        BY <3>1
      <4> QED BY <4>1
    <3>2. Absent[1] \in Nat
      BY <2>1, <2>2, <3>1
    <3> QED BY <3>2, <2>1
  <2> QED BY <2>2
<1>2. Nothing \notin Recon
  <2>1. Nothing.api = "none"
    BY DEF Nothing
  <2>2. \A r \in Recon : r.api = "recon"
    BY DEF Recon
  <2> QED BY <2>1, <2>2
<1> QED BY <1>1, <1>2, FileAssumption DEF Fresh, Recon

-----------------------------------------------------------------------------
(* Each call of the target keeps the invariant.                            *)

\* The parts of the invariant, as facts.
LEMMA Facts ==
    ASSUME FileInv
    PROVE  /\ DOMAIN content = Paths
           /\ \A p \in Paths : content[p] \in Seq(Nat) \/ content[p] = Absent
           /\ \A h \in Handles : /\ open[h] = NoPath \/ open[h] \in Paths
                                 /\ seen.path[h] = open[h]
                                 /\ pos[h] \in Nat /\ seen.pos[h] \in Nat
           /\ \A p \in Paths : seen.recon[p] = Nothing \/ seen.recon[p] \in Recon
BY DEF FileInv, FileTypes, Followed

LEMMA FileCreateStep ==
    ASSUME FileInv, NEW h \in Handles, NEW p \in Paths,
           NEW how \in {"new", "always", "existing", "open always"}, Create(h, p, how)
    PROVE  FileInv'
<1>1. seen' = [seen EXCEPT !.path[h] = p, !.pos[h] = 0,
                           !.recon[p] = IF how = "always" THEN Nothing ELSE @]
  BY DEF Create, Call, See, SeeCreate
<1>2. FileTypes'
  BY <1>1, MarksDiffer DEF FileInv, FileTypes, Create
<1>3. Followed'
  BY <1>1, MarksDiffer DEF FileInv, FileTypes, Followed, Create
<1>4. ReconstructionExact'
  <2> SUFFICES ASSUME NEW q \in Paths, q \notin older', q \notin mistaken' PROVE Exact(q)'
    BY DEF ReconstructionExact, Exact
  <2>1. CASE q # p
    <3>1. q \notin older /\ q \notin mistaken
      BY <2>1 DEF Create
    <3>2. Exact(q)
      BY <3>1 DEF FileInv, ReconstructionExact, Exact
    <3>3. content'[q] = content[q] /\ seen'.recon[q] = seen.recon[q]
      BY <2>1, <1>1 DEF Create, FileInv, FileTypes
    <3> QED BY <3>2, <3>3, MarksDiffer DEF Exact
  <2>2. CASE q = p /\ (how = "always" \/ content[p] = Absent)
    <3>1. content'[p] = <<>> /\ (how = "always" \/ seen.recon[p] = Nothing)
      BY <2>2 DEF Create, Rebuilt, FileInv, FileTypes
    <3>2. seen'.recon[p] = Nothing
      BY <3>1, <1>1 DEF FileInv, FileTypes
    <3> QED BY <2>2, <3>1, <3>2 DEF Exact
  <2>3. CASE q = p /\ ~(how = "always" \/ content[p] = Absent)
    <3>1. q \notin older /\ q \notin mistaken
      BY <2>3 DEF Create
    <3>2. Exact(q)
      BY <3>1 DEF FileInv, ReconstructionExact, Exact
    <3>3. content'[q] = content[q] /\ seen'.recon[q] = seen.recon[q]
      BY <2>3, <1>1 DEF Create, FileInv, FileTypes
    <3> QED BY <3>2, <3>3, MarksDiffer DEF Exact
  <2> QED BY <2>1, <2>2, <2>3
<1> QED BY <1>2, <1>3, <1>4 DEF FileInv

LEMMA CreateFailsStep ==
    ASSUME FileInv, NEW h \in Handles, NEW p \in Paths, CreateFails(h, p)
    PROVE  FileInv'
<1>1. seen' = seen
  BY DEF CreateFails, Call, See, SeeCreate
<1> QED BY <1>1 DEF FileInv, FileTypes, Followed, ReconstructionExact, CreateFails, unknown

LEMMA ReadStep ==
    ASSUME FileInv, NEW h \in Handles, Read(h)
    PROVE  FileInv'
<1>1. seen' = seen
  BY DEF Read, Call, See
<1> QED BY <1>1 DEF FileInv, FileTypes, Followed, ReconstructionExact, Read, unknown

LEMMA MappingStep ==
    ASSUME FileInv, NEW h \in Handles, Mapping(h)
    PROVE  FileInv'
<1>1. seen' = [seen EXCEPT !.pos[h] = 0]
  BY MarksDiffer DEF Mapping, Call, See, SeeMapping, Tracks, FileInv, Followed
<1> QED BY <1>1 DEF FileInv, FileTypes, Followed, ReconstructionExact, Mapping, unknown

LEMMA SeekStep ==
    ASSUME FileInv, NEW h \in Handles, NEW to \in 0..MaxSize, NEW told \in BOOLEAN,
           Seek(h, to, told)
    PROVE  FileInv'
<1>1. seen' = [seen EXCEPT !.pos[h] = IF told THEN to ELSE 0]
  BY DEF Seek, Call, See, SeeSeek
<1>2. to \in Nat
  BY FileAssumption
<1>3. FileTypes'
  BY <1>1, <1>2 DEF FileInv, FileTypes, Seek
<1>4. Followed'
  BY <1>1, <1>2 DEF FileInv, FileTypes, Followed, Seek
<1> QED BY <1>1, <1>3, <1>4 DEF FileInv, FileTypes, ReconstructionExact, Seek, unknown

LEMMA CloseStep ==
    ASSUME FileInv, NEW h \in Handles, Close(h)
    PROVE  FileInv'
<1>1. seen' = [seen EXCEPT !.path[h] = NoPath, !.pos[h] = 0]
  BY DEF Close, Call, See, SeeClose, Tracks, FileInv, Followed
<1> QED BY <1>1, MarksDiffer
        DEF FileInv, FileTypes, Followed, ReconstructionExact, Close, unknown

LEMMA DeleteStep ==
    ASSUME FileInv, NEW p \in Paths, Delete(p)
    PROVE  FileInv'
<1>1. seen' = seen
  BY DEF Delete, Call, See
<1> QED BY <1>1 DEF FileInv, FileTypes, Followed, ReconstructionExact, Delete, InUse

\* What is written to an empty or a complete reconstruction makes it complete
\* exactly when it leaves no gap and was captured in full.
LEMMA WriteStep ==
    ASSUME FileInv, NEW h \in Handles, NEW chunk \in Chunks, NEW at \in 0..MaxSize,
           NEW overlapped \in BOOLEAN, Write(h, chunk, at, overlapped)
    PROVE  FileInv'
<1> DEFINE p == open[h]
           data == Captured(chunk)
           before == IF seen.recon[p] = Nothing THEN Fresh ELSE seen.recon[p]
           offset == IF overlapped THEN at ELSE seen.pos[h]
           after == [before EXCEPT
                       !.data = Patch(@, offset, data),
                       !.complete = /\ @ /\ offset <= Len(before.data)
                                    /\ ~overlapped /\ Len(data) = Len(chunk)]
<1>1. /\ p \in Paths /\ seen.path[h] = p /\ chunk \in Seq(Nat) /\ data \in Seq(Nat)
      /\ at \in Nat /\ offset \in Nat /\ before \in Recon
  <2>1. p \in Paths /\ seen.path[h] = p /\ seen.pos[h] \in Nat
    BY Facts DEF Write
  <2>2. chunk \in Seq(Nat) /\ data \in Seq(Nat) /\ at \in Nat
    BY FileAssumption, CapturedAll
  <2>3. before \in Recon
    BY <2>1, Facts, MarksDiffer
  <2> QED BY <2>1, <2>2, <2>3
<1>2. seen' = [seen EXCEPT !.pos[h] = offset + Len(chunk), !.recon[p] = after]
  <2>1. SeeWrite([api |-> "write", h |-> h, overlapped |-> overlapped, offset |-> at,
                  size |-> Len(chunk), data |-> data])
    BY DEF Write, Call, See
  <2> QED BY <2>1, <1>1, MarksDiffer DEF SeeWrite
<1>3. /\ after \in Recon /\ after # Nothing
      /\ after.data = Patch(before.data, offset, data)
      /\ after.complete => /\ before.complete /\ ~overlapped /\ Len(data) = Len(chunk)
  <2>1. before.data \in Seq(Nat) /\ before.complete \in BOOLEAN
    BY <1>1 DEF Recon
  <2>2. Patch(before.data, offset, data) \in Seq(Nat)
    BY <2>1, <1>1, PatchType
  <2>3. /\ after \in Recon /\ after.data = Patch(before.data, offset, data)
        /\ after.complete = (/\ before.complete /\ offset <= Len(before.data)
                             /\ ~overlapped /\ Len(data) = Len(chunk))
    <3> DEFINE d == Patch(before.data, offset, data)
               c == /\ before.complete /\ offset <= Len(before.data)
                    /\ ~overlapped /\ Len(data) = Len(chunk)
               u == [before EXCEPT !.data = d, !.complete = c]
    <3>1. c \in BOOLEAN /\ d \in Seq(Nat) /\ before \in Recon
      BY <1>1, <2>2
    <3>2. after = u
      OBVIOUS
    <3> HIDE DEF before, offset, data, c, d, after
    <3>3. u \in Recon /\ u.data = d /\ u.complete = c
      BY <3>1 DEF Recon
    <3> QED BY <3>2, <3>3 DEF c, d
  <2> HIDE DEF before, offset, data, after
  <2> QED BY <2>3, MarksDiffer
<1> HIDE DEF after
<1>4. content' = [content EXCEPT ![p] = Patch(@, at, chunk)] /\ content[p] \in Seq(Nat)
  BY <1>1, Facts DEF Write, FileInv, Followed
<1>5. Patch(content[p], at, chunk) \in Seq(Nat)
  BY <1>1, <1>4, PatchType
<1>6. FileTypes'
  <2> HIDE DEF offset
  <2>1. at + Len(chunk) \in Nat /\ offset + Len(chunk) \in Nat
    BY <1>1
  <2> QED BY <1>1, <1>2, <1>3, <1>4, <1>5, <2>1 DEF FileInv, FileTypes, Write
<1>7. Followed'
  <2>1. \A q \in Paths : content[q] # Absent => content'[q] # Absent
    BY <1>4, <1>5, MarksDiffer DEF FileInv, FileTypes
  <2> QED BY <1>1, <1>2, <2>1 DEF FileInv, FileTypes, Followed, Write
<1>8. ReconstructionExact'
  <2> SUFFICES ASSUME NEW q \in Paths, q \notin older', q \notin mistaken' PROVE Exact(q)'
    BY DEF ReconstructionExact, Exact
  <2>1. q \notin older /\ q \notin mistaken
    BY DEF Write
  <2>2. Exact(q)
    BY <2>1 DEF FileInv, ReconstructionExact, Exact
  <2>3. CASE q # p
    <3>1. content'[q] = content[q] /\ seen'.recon[q] = seen.recon[q]
      BY <2>3, <1>1, <1>2, <1>4 DEF FileInv, FileTypes
    <3> QED BY <2>2, <3>1, MarksDiffer DEF Exact
  <2>4. CASE q = p
    <3>1. seen'.recon[q] = after /\ content'[q] = Patch(content[p], at, chunk)
      BY <2>4, <1>1, <1>2, <1>4 DEF FileInv, FileTypes
    <3>2. ASSUME after.complete PROVE after.data = content'[q]
      <4>1. before.complete /\ ~overlapped /\ data = chunk
        BY <3>2, <1>3, <1>1, CapturedAll
      <4>2. offset = at
        BY <4>1, <2>4, <1>1 DEF Write, Misplaced
      <4>3. before.data = content[p]
        BY <4>1, <2>2, <2>4, <1>1, <1>4, MarksDiffer DEF Exact
      <4> QED BY <4>1, <4>2, <4>3, <3>1, <1>3
    <3> QED BY <3>1, <3>2, <1>3, <1>5, MarksDiffer DEF Exact
  <2> QED BY <2>3, <2>4
<1> QED BY <1>6, <1>7, <1>8 DEF FileInv

LEMMA SetEndStep ==
    ASSUME FileInv, NEW h \in Handles, SetEnd(h)
    PROVE  FileInv'
<1> DEFINE p == open[h]
           known == seen.recon[p] # Nothing
<1>1. /\ p \in Paths /\ seen.path[h] = p /\ pos[h] \in Nat /\ seen.pos[h] \in Nat
      /\ content[p] \in Seq(Nat) /\ (known => seen.recon[p] \in Recon)
  BY Facts DEF SetEnd, FileInv, Followed
<1>2. content' = [content EXCEPT ![p] = Resize(content[p], pos[h])]
  BY DEF SetEnd
<1>3. SeeSetEnd([api |-> "set end", h |-> h])
  BY DEF SetEnd, Call, See
<1>4. ~known => seen' = seen
  BY <1>3, <1>1 DEF SeeSetEnd
<1>5. known => seen' = [seen EXCEPT !.recon[p].data = Resize(@, seen.pos[h])]
  BY <1>3, <1>1, MarksDiffer DEF SeeSetEnd
<1>6. Resize(content[p], pos[h]) \in Seq(Nat) /\ Resize(content[p], pos[h]) # Absent
  BY <1>1, ResizeType, MarksDiffer
<1>7. known => LET u == [seen.recon[p] EXCEPT !.data = Resize(@, seen.pos[h])]
               IN  /\ u \in Recon /\ u # Nothing
                   /\ u.data = Resize(seen.recon[p].data, seen.pos[h])
                   /\ u.complete = seen.recon[p].complete
  <2> SUFFICES ASSUME known
               PROVE  LET u == [seen.recon[p] EXCEPT !.data = Resize(@, seen.pos[h])]
                      IN  /\ u \in Recon /\ u.data = Resize(seen.recon[p].data, seen.pos[h])
                          /\ u.complete = seen.recon[p].complete
    BY MarksDiffer
  <2>1. seen.recon[p].data \in Seq(Nat)
    BY <1>1 DEF Recon
  <2>2. Resize(seen.recon[p].data, seen.pos[h]) \in Seq(Nat)
    BY <2>1, <1>1, ResizeType
  <2> QED BY <1>1, <2>2 DEF Recon
<1>8. FileTypes'
  <2>1. CASE known
    <3> DEFINE u == [seen.recon[p] EXCEPT !.data = Resize(@, seen.pos[h])]
    <3>1. seen' = [seen EXCEPT !.recon[p] = u] /\ u \in Recon
      BY <2>1, <1>5, <1>7
    <3> HIDE DEF u
    <3>2. seen'.recon \in [Paths -> Recon \cup {Nothing}]
      BY <3>1, <1>1 DEF FileInv, FileTypes
    <3>3. /\ seen' \in [path : [Handles -> Paths \cup {NoPath}], pos : [Handles -> Nat],
                        recon : [Paths -> Recon \cup {Nothing}]]
      BY <3>1, <3>2 DEF FileInv, FileTypes
    <3> QED BY <3>3, <1>1, <1>2, <1>6 DEF FileInv, FileTypes, SetEnd
  <2>2. CASE ~known
    BY <2>2, <1>1, <1>2, <1>4, <1>6 DEF FileInv, FileTypes, SetEnd
  <2> QED BY <2>1, <2>2
<1>9. Followed'
  <2>1. seen'.path = seen.path /\ seen'.pos = seen.pos
    BY <1>4, <1>5 DEF FileInv, FileTypes
  <2> QED BY <2>1, <1>2, <1>6 DEF FileInv, FileTypes, Followed, SetEnd
<1>10. ReconstructionExact'
  <2> SUFFICES ASSUME NEW q \in Paths, q \notin older', q \notin mistaken' PROVE Exact(q)'
    BY DEF ReconstructionExact, Exact
  <2>1. CASE q # p
    <3>1. seen'.recon[q] = seen.recon[q] /\ content'[q] = content[q]
      BY <2>1, <1>2, <1>4, <1>5 DEF FileInv, FileTypes
    <3>2. q \notin older /\ q \notin mistaken
      BY <2>1 DEF SetEnd
    <3> QED BY <3>1, <3>2 DEF FileInv, ReconstructionExact, Exact
  <2>2. CASE q = p
    <3>1. /\ IF known THEN seen.pos[h] = pos[h] ELSE content[p] # <<>>
          /\ pos[h] = 0 \/ (p \notin older /\ p \notin mistaken)
      BY <2>2 DEF SetEnd, Rebuilt, Misplaced
    <3>2. content'[p] = Resize(content[p], pos[h]) /\ content[p] # Absent
      BY <1>1, <1>2, MarksDiffer DEF FileInv, FileTypes
    <3>3. pos[h] = 0 => \A d \in Seq(Nat) : Resize(d, pos[h]) = <<>>
      BY DEF Resize
    <3>4. pos[h] # 0 => Exact(p)
      BY <3>1, <1>1 DEF FileInv, ReconstructionExact, Exact
    <3>5. CASE known
      <4>1. /\ seen'.recon[p] # Nothing
            /\ seen'.recon[p].data = Resize(seen.recon[p].data, pos[h])
            /\ seen'.recon[p].complete = seen.recon[p].complete
        BY <3>5, <3>1, <1>1, <1>5, <1>7 DEF FileInv, FileTypes
      <4>2. seen.recon[p].data \in Seq(Nat)
        BY <3>5, <1>1 DEF Recon
      <4>3. seen.recon[p].complete => Resize(seen.recon[p].data, pos[h]) = Resize(content[p], pos[h])
        <5>1. CASE pos[h] = 0
          BY <5>1, <3>3, <4>2, <1>1
        <5>2. CASE pos[h] # 0
          BY <5>2, <3>2, <3>4, <3>5 DEF Exact
        <5> QED BY <5>1, <5>2
      <4> QED BY <2>2, <3>2, <4>1, <4>3 DEF Exact
    <3>6. CASE ~known
      <4>1. pos[h] = 0
        BY <3>1, <3>2, <3>4, <3>6 DEF Exact
      <4>2. content'[p] = <<>> /\ seen'.recon[p] = Nothing
        BY <4>1, <3>2, <3>3, <3>6, <1>1, <1>4
      <4> QED BY <2>2, <4>2 DEF Exact
    <3> QED BY <3>5, <3>6
  <2> QED BY <2>1, <2>2
<1> QED BY <1>8, <1>9, <1>10 DEF FileInv

\* The moved reconstruction is the destination's; with one that the destination
\* keeps for want of it, the file is mistaken.
LEMMA MoveStep ==
    ASSUME FileInv, NEW p \in Paths, NEW q \in Paths, Move(p, q)
    PROVE  FileInv'
<1> DEFINE known == seen.recon[p] # Nothing
<1>1. SeeMove([api |-> "move", path |-> p, to |-> q])
  BY DEF Move, Call, See
<1>2. /\ seen'.path = [h \in Handles |-> IF seen.path[h] = p THEN q ELSE seen.path[h]]
      /\ seen'.pos = seen.pos
      /\ seen'.recon = IF known THEN [seen.recon EXCEPT ![q] = seen.recon[p], ![p] = Nothing]
                                ELSE seen.recon
      /\ seen' = [path |-> seen'.path, pos |-> seen'.pos, recon |-> seen'.recon]
  <2>1. CASE known
    BY <2>1, <1>1 DEF SeeMove, FileInv, FileTypes
  <2>2. CASE ~known
    BY <2>2, <1>1 DEF SeeMove, FileInv, FileTypes
  <2> QED BY <2>1, <2>2
<1>3. /\ p # q /\ content[p] # Absent
      /\ content' = [content EXCEPT ![q] = content[p], ![p] = Absent]
      /\ open' = [h \in Handles |-> IF open[h] = p THEN q ELSE open[h]]
      /\ \A h \in Handles : open[h] # q
      /\ pos' = pos
      /\ older' = (older \ {p, q}) \cup IF p \in older THEN {q} ELSE {}
      /\ mistaken' = (mistaken \ {p, q})
            \cup IF p \in mistaken \/ (~known /\ seen.recon[q] # Nothing) THEN {q} ELSE {}
  BY DEF Move, InUse, Rebuilt
<1>4. FileTypes'
  <2>1. seen'.recon \in [Paths -> Recon \cup {Nothing}]
    BY <1>2 DEF FileInv, FileTypes
  <2>2. seen'.path \in [Handles -> Paths \cup {NoPath}] /\ seen'.pos \in [Handles -> Nat]
    BY <1>2 DEF FileInv, FileTypes
  <2> QED BY <1>2, <1>3, <2>1, <2>2 DEF FileInv, FileTypes
<1>5. Followed'
  BY <1>2, <1>3, MarksDiffer DEF FileInv, FileTypes, Followed
<1>6. ReconstructionExact'
  <2> SUFFICES ASSUME NEW r \in Paths, r \notin older', r \notin mistaken' PROVE Exact(r)'
    BY DEF ReconstructionExact, Exact
  <2>1. CASE r = p
    BY <2>1, <1>2, <1>3 DEF FileInv, FileTypes, Exact
  <2>2. CASE r = q
    <3>1. p \notin older /\ p \notin mistaken /\ (known \/ seen.recon[q] = Nothing)
      BY <2>2, <1>3
    <3>2. Exact(p)
      BY <3>1 DEF FileInv, ReconstructionExact, Exact
    <3>3. content'[r] = content[p]
      BY <2>2, <1>3 DEF FileInv, FileTypes
    <3>4. CASE known
      <4>1. seen'.recon[r] = seen.recon[p]
        BY <2>2, <3>4, <1>2, <1>3 DEF FileInv, FileTypes
      <4> QED BY <4>1, <3>2, <3>3, <1>3 DEF Exact
    <3>5. CASE ~known
      <4>1. seen'.recon[r] = Nothing
        BY <2>2, <3>1, <3>5, <1>2
      <4>2. content[p] = <<>>
        BY <3>2, <3>5, <1>3 DEF Exact
      <4> QED BY <4>1, <4>2, <3>3 DEF Exact
    <3> QED BY <3>4, <3>5
  <2>3. CASE r \notin {p, q}
    <3>1. /\ seen'.recon[r] = seen.recon[r] /\ content'[r] = content[r]
          /\ r \notin older /\ r \notin mistaken
      BY <2>3, <1>2, <1>3 DEF FileInv, FileTypes
    <3> QED BY <3>1 DEF FileInv, ReconstructionExact, Exact
  <2> QED BY <2>1, <2>2, <2>3
<1> QED BY <1>4, <1>5, <1>6 DEF FileInv

-----------------------------------------------------------------------------
LEMMA FileInvInit == FileInit => FileInv
<1> SUFFICES ASSUME FileInit PROVE FileInv
  OBVIOUS
<1>1. \A p \in Paths : content[p] = Absent \/ content[p] = <<0>>
  BY DEF FileInit
<1>2. <<0>> \in Seq(Nat)
  OBVIOUS
<1>3. FileTypes
  BY <1>1, <1>2 DEF FileInit, FileTypes
<1> QED BY <1>3, MarksDiffer DEF FileInit, FileInv, Followed, ReconstructionExact

LEMMA FileInvStep == FileInv /\ [FileNext]_fileVars => FileInv'
<1> SUFFICES ASSUME FileInv, [FileNext]_fileVars PROVE FileInv'
  OBVIOUS
<1>1. CASE UNCHANGED fileVars
  BY <1>1 DEF FileInv, FileTypes, Followed, ReconstructionExact, fileVars, target, unknown
<1>2. CASE FileNext
  BY <1>2, FileCreateStep, CreateFailsStep, WriteStep, SeekStep, ReadStep, MappingStep,
     SetEndStep, CloseStep, MoveStep, DeleteStep DEF FileNext
<1> QED BY <1>1, <1>2

\* Whatever a target writes, reads, maps, seeks, cuts, moves, deletes and closes,
\* the view's loop gets no file wrong but by its four known errors: every other
\* file that holds nothing older than the reports is reconstructed, and what is
\* called complete is what stands in it.
THEOREM ReconstructionExactHolds == FileSpec => []ReconstructionExact
<1>1. FileInv => ReconstructionExact
  BY DEF FileInv
<1> QED BY FileInvInit, FileInvStep, <1>1, PTL DEF FileSpec

-----------------------------------------------------------------------------
(* The processes.                                                          *)

Stamps == [kind : {"start", "stop"}, pid : RowPids \cup {NoRowPid}, at : 0 .. MaxClock, of : 1 .. MaxProcesses]
About(e) == e.of \in DOMAIN processes
OncePer(s) == \A i, j \in DOMAIN s : s[i].kind = s[j].kind /\ s[i].of = s[j].of => i = j

ProcessTypes ==
    /\ clock \in 0 .. MaxClock
    /\ processes \in Seq([pid : RowPids, runs : BOOLEAN]) /\ Len(processes) <= MaxProcesses
    /\ creating \subseteq DOMAIN processes
    /\ called \in Seq(Stamps) /\ kernel \in Seq(Stamps)

\* Who is told of was there, and has the pid that is told, if any.
Told ==
    /\ \A i \in DOMAIN called :
          About(called[i]) /\ called[i].pid \in {processes[called[i].of].pid, NoRowPid}
    /\ \A i \in DOMAIN kernel : About(kernel[i]) /\ kernel[i].pid = processes[kernel[i].of].pid

\* Each source tells once of each beginning and each end.
ToldOnce ==
    /\ OncePer(called) /\ OncePer(kernel)
    /\ \A i \in DOMAIN called : called[i].kind = "start" => called[i].of \notin creating
    /\ \A i \in DOMAIN kernel : kernel[i].kind = "stop" => ~processes[kernel[i].of].runs

ProcessInv == ProcessTypes /\ Told /\ ToldOnce

-----------------------------------------------------------------------------
(* The rows.                                                               *)

ViewRow == [kind : {"start", "stop"}, pid : RowPids \cup {NoRowPid}, at : 0 .. MaxClock,
            fromEtw : BOOLEAN, about : SUBSET (1 .. MaxProcesses)]

\* The kernel's event e belongs to the call c; to no call.
Fits(c, e) == c.kind = e.kind /\ c.pid = e.pid /\ Apart(c.at, e.at) <= Window
Uncalled(e) == \A i \in DOMAIN called : ~Fits(called[i], e)

\* The row of the call c, after the first n events of the kernel.
CallRow(row, c, n) ==
    /\ row.kind = c.kind /\ row.pid = c.pid /\ row.at = c.at /\ ~row.fromEtw
    /\ c.of \in row.about
    /\ \A x \in row.about : x = c.of \/ \E m \in 1 .. n : kernel[m].of = x /\ Fits(c, kernel[m])

\* The rows of the calls, and after them one for each event of no call: the row
\* i is that of the event g[i].
KernelRows(rows, n, g) ==
    /\ g \in [Len(called) + 1 .. Len(rows) -> 1 .. n]
    /\ \A i, j \in Len(called) + 1 .. Len(rows) : i < j => g[i] < g[j]
    /\ \A i \in Len(called) + 1 .. Len(rows) :
          rows[i] = Row(kernel[g[i]], TRUE) /\ Uncalled(kernel[g[i]])
    /\ \A m \in 1 .. n : Uncalled(kernel[m]) => \E i \in Len(called) + 1 .. Len(rows) : g[i] = m
CallRows(rows, n) ==
    Len(called) <= Len(rows) /\ \A i \in 1 .. Len(called) : CallRow(rows[i], called[i], n)
Joined(rows, n) == rows \in Seq(ViewRow) /\ CallRows(rows, n) /\ \E g : KernelRows(rows, n, g)

LEMMA RowType == ASSUME NEW e \in Stamps, NEW etw \in BOOLEAN PROVE Row(e, etw) \in ViewRow
BY DEF Stamps, ViewRow, Row

LEMMA JoinedFirst ==
    ASSUME called \in Seq(Stamps) PROVE Joined([i \in DOMAIN called |-> Row(called[i], FALSE)], 0)
<1> DEFINE rows == [i \in DOMAIN called |-> Row(called[i], FALSE)]
           L == Len(called)
<1>1. L \in Nat /\ DOMAIN called = 1 .. L /\ \A i \in 1 .. L : called[i] \in Stamps
  OBVIOUS
<1>2. \A i \in 1 .. L : rows[i] = Row(called[i], FALSE) /\ rows[i] \in ViewRow
  BY <1>1, RowType
<1>3. rows \in Seq(ViewRow) /\ Len(rows) = L
  <2>1. rows = [i \in 1 .. L |-> rows[i]]
    BY <1>1
  <2> HIDE DEF rows
  <2>2. rows \in [1 .. L -> ViewRow]
    BY <1>2, <2>1
  <2> QED BY <1>1, <2>2
<1>4. CallRows(rows, 0)
  BY <1>1, <1>2, <1>3 DEF CallRows, CallRow, Row
<1> HIDE DEF rows
<1>5. KernelRows(rows, 0, [i \in {} |-> 0])
  <2>1. L + 1 .. Len(rows) = {} /\ 1 .. 0 = {}
    BY <1>1, <1>3
  <2> QED BY <2>1 DEF KernelRows
<1> QED BY <1>3, <1>4, <1>5 DEF Joined, rows

\* The first of the rows that an event fits, if there is one.
FirstOf(I) == CHOOSE i \in I : \A j \in I : i <= j
LEMMA FirstIsOne == ASSUME NEW I \in SUBSET Nat, I # {} PROVE FirstOf(I) \in I
<1>1. PICK x \in I : \A y \in I : x <= y
  BY Smallest
<1> QED BY <1>1, Zenon DEF FirstOf

Fitting(rows, e) == {i \in DOMAIN rows : Matches(rows[i], e)}

LEMMA FittingIsCalled ==
    ASSUME NEW rows, NEW n \in Nat, Joined(rows, n), called \in Seq(Stamps), NEW e \in Stamps
    PROVE  Fitting(rows, e) = {i \in 1 .. Len(called) : Fits(called[i], e)}
<1>0. rows \in Seq(ViewRow) /\ Len(called) \in Nat /\ Len(rows) \in Nat /\ Len(called) <= Len(rows)
  BY DEF Joined, CallRows
<1>1. ASSUME NEW i \in 1 .. Len(called) PROVE Matches(rows[i], e) <=> Fits(called[i], e)
  <2>1. CallRow(rows[i], called[i], n)
    BY DEF Joined, CallRows
  <2> QED BY <2>1 DEF CallRow, Matches, Fits
<1>2. ASSUME NEW i \in Len(called) + 1 .. Len(rows) PROVE ~Matches(rows[i], e)
  <2>1. PICK g : KernelRows(rows, n, g)
    BY DEF Joined
  <2>2. rows[i] = Row(kernel[g[i]], TRUE)
    BY <2>1 DEF KernelRows
  <2>3. rows[i].fromEtw
    BY <2>2 DEF Row
  <2> QED BY <2>3 DEF Matches
<1>3. \A i \in DOMAIN rows : i \in 1 .. Len(called) \/ i \in Len(called) + 1 .. Len(rows)
  BY <1>0
<1>4. \A i \in 1 .. Len(called) : i \in DOMAIN rows
  BY <1>0
<1> QED BY <1>1, <1>2, <1>3, <1>4 DEF Fitting

LEMMA MergeIs ==
    ASSUME NEW rows, NEW e
    PROVE  MergeEtw(rows, e) =
               IF Fitting(rows, e) = {} THEN Append(rows, Row(e, TRUE))
               ELSE [rows EXCEPT ![FirstOf(Fitting(rows, e))].about = @ \cup {e.of}]
BY DEF MergeEtw, Fitting, FirstOf

\* An event that no call's row fits makes a row of its own.
LEMMA AppendJoined ==
    ASSUME called \in Seq(Stamps), kernel \in Seq(Stamps), NEW n \in 0 .. Len(kernel) - 1,
           NEW rows, Joined(rows, n), Uncalled(kernel[n + 1])
    PROVE  Joined(Append(rows, Row(kernel[n + 1], TRUE)), n + 1)
<1> DEFINE e == kernel[n + 1]
           L == Len(called)
           N == Len(rows)
           longer == Append(rows, Row(e, TRUE))
<1>1. rows \in Seq(ViewRow) /\ CallRows(rows, n) /\ L <= N /\ L \in Nat /\ N \in Nat
  BY DEF Joined, CallRows
<1>2. PICK g : KernelRows(rows, n, g)
  BY DEF Joined
<1>3. e \in Stamps
  OBVIOUS
<1> HIDE DEF e
<1>15. Row(e, TRUE) \in ViewRow
  BY <1>3, RowType
<1> DEFINE new == Row(e, TRUE)
<1> HIDE DEF new
<1>14. new \in ViewRow
  BY <1>15 DEF new
<1>4. /\ longer \in Seq(ViewRow) /\ Len(longer) = N + 1 /\ longer[N + 1] = Row(e, TRUE)
      /\ \A i \in 1 .. N : longer[i] = rows[i]
  <2>1. longer = Append(rows, new)
    BY DEF new
  <2> HIDE DEF longer
  <2>2. /\ longer \in Seq(ViewRow) /\ Len(longer) = N + 1 /\ longer[N + 1] = new
        /\ \A i \in 1 .. N : longer[i] = rows[i]
    BY <1>1, <1>14, <2>1
  <2> QED BY <2>2 DEF new
<1> HIDE DEF longer
<1> USE DEF e
<1>5. CallRows(longer, n + 1)
  <2> SUFFICES ASSUME NEW i \in 1 .. L PROVE CallRow(longer[i], called[i], n + 1)
    BY <1>1, <1>4 DEF CallRows
  <2>1. CallRow(rows[i], called[i], n) /\ longer[i] = rows[i]
    BY <1>1, <1>4 DEF CallRows
  <2> QED BY <2>1 DEF CallRow
<1> DEFINE h == [i \in L + 1 .. N + 1 |-> IF i = N + 1 THEN n + 1 ELSE g[i]]
<1>6. g \in [L + 1 .. N -> 1 .. n]
  BY <1>2 DEF KernelRows
<1>7. h[N + 1] = n + 1 /\ \A i \in L + 1 .. N : h[i] = g[i] /\ g[i] \in 1 .. n
  BY <1>1, <1>6
<1>8. \A i \in L + 1 .. N + 1 : i \in L + 1 .. N \/ i = N + 1
  BY <1>1
<1>16. h = [i \in L + 1 .. N + 1 |-> h[i]]
  OBVIOUS
<1> HIDE DEF h
<1>9. h \in [L + 1 .. N + 1 -> 1 .. n + 1]
  <2>1. ASSUME NEW i \in L + 1 .. N + 1 PROVE h[i] \in 1 .. n + 1
    <3>1. CASE i = N + 1
      BY <3>1, <1>7
    <3>2. CASE i \in L + 1 .. N
      BY <3>2, <1>7
    <3> QED BY <3>1, <3>2, <1>8
  <2> QED BY <2>1, <1>16
<1>10. ASSUME NEW i \in L + 1 .. N + 1, NEW j \in L + 1 .. N + 1, i < j PROVE h[i] < h[j]
  <2>1. i \in L + 1 .. N
    BY <1>10, <1>1
  <2>2. CASE j = N + 1
    BY <2>1, <2>2, <1>7
  <2>3. CASE j \in L + 1 .. N
    BY <1>10, <2>1, <2>3, <1>2, <1>7 DEF KernelRows
  <2> QED BY <2>2, <2>3, <1>8
<1>11. ASSUME NEW i \in L + 1 .. N + 1
       PROVE  longer[i] = Row(kernel[h[i]], TRUE) /\ Uncalled(kernel[h[i]])
  <2>1. CASE i = N + 1
    BY <2>1, <1>4, <1>7
  <2>2. CASE i \in L + 1 .. N
    <3>1. rows[i] = Row(kernel[g[i]], TRUE) /\ Uncalled(kernel[g[i]])
      BY <2>2, <1>2 DEF KernelRows
    <3>2. longer[i] = rows[i]
      BY <2>2, <1>1, <1>4
    <3> QED BY <3>1, <3>2, <2>2, <1>7
  <2> QED BY <2>1, <2>2, <1>8
<1>12. ASSUME NEW m \in 1 .. n + 1, Uncalled(kernel[m])
       PROVE  \E i \in L + 1 .. N + 1 : h[i] = m
  <2>1. CASE m = n + 1
    BY <2>1, <1>7, <1>1
  <2>2. CASE m \in 1 .. n
    <3>1. PICK i \in L + 1 .. N : g[i] = m
      BY <2>2, <1>12, <1>2 DEF KernelRows
    <3> QED BY <3>1, <1>7, <1>1
  <2> QED BY <2>1, <2>2
<1>13. KernelRows(longer, n + 1, h)
  BY <1>4, <1>9, <1>10, <1>11, <1>12 DEF KernelRows
<1> QED BY <1>4, <1>5, <1>13 DEF Joined, longer

\* One that fits is told of in the first call's row that it fits.
LEMMA MarkJoined ==
    ASSUME called \in Seq(Stamps), kernel \in Seq(Stamps), NEW n \in 0 .. Len(kernel) - 1,
           NEW rows, Joined(rows, n), NEW f \in 1 .. Len(called), Fits(called[f], kernel[n + 1])
    PROVE  Joined([rows EXCEPT ![f].about = @ \cup {kernel[n + 1].of}], n + 1)
<1> DEFINE e == kernel[n + 1]
           L == Len(called)
           N == Len(rows)
           told == [rows EXCEPT ![f].about = @ \cup {e.of}]
<1>1. rows \in Seq(ViewRow) /\ CallRows(rows, n) /\ L <= N /\ L \in Nat /\ N \in Nat
  BY DEF Joined, CallRows
<1>2. PICK g : KernelRows(rows, n, g)
  BY DEF Joined
<1>3. e \in Stamps /\ f \in 1 .. N /\ rows[f] \in ViewRow
  BY <1>1
<1> DEFINE row == [rows[f] EXCEPT !.about = @ \cup {e.of}]
<1>4. /\ row \in ViewRow /\ row.kind = rows[f].kind /\ row.pid = rows[f].pid /\ row.at = rows[f].at
      /\ row.fromEtw = rows[f].fromEtw /\ row.about = rows[f].about \cup {e.of}
  BY <1>3 DEF ViewRow, Stamps
<1>5. told = [rows EXCEPT ![f] = row]
  OBVIOUS
<1> HIDE DEF row, told
<1>6. /\ told \in Seq(ViewRow) /\ Len(told) = N /\ told[f] = row
      /\ \A i \in 1 .. N : i # f => told[i] = rows[i]
  BY <1>1, <1>3, <1>4, <1>5
<1>7. CallRows(told, n + 1)
  <2> SUFFICES ASSUME NEW i \in 1 .. L PROVE CallRow(told[i], called[i], n + 1)
    BY <1>1, <1>6 DEF CallRows
  <2>1. CallRow(rows[i], called[i], n) /\ i \in 1 .. N
    BY <1>1 DEF CallRows
  <2>2. CASE i # f
    <3>1. told[i] = rows[i]
      BY <2>1, <2>2, <1>6
    <3>2. \A m \in 1 .. n : m \in 1 .. n + 1
      OBVIOUS
    <3> QED BY <2>1, <3>1, <3>2 DEF CallRow
  <2>3. CASE i = f
    <3>1. \A x \in row.about : x = called[f].of
                               \/ \E m \in 1 .. n + 1 : kernel[m].of = x /\ Fits(called[f], kernel[m])
      <4>1. ASSUME NEW x \in rows[f].about
            PROVE  x = called[f].of \/ \E m \in 1 .. n : kernel[m].of = x /\ Fits(called[f], kernel[m])
        BY <2>1, <2>3 DEF CallRow
      <4>2. \A m \in 1 .. n : m \in 1 .. n + 1
        OBVIOUS
      <4>3. n + 1 \in 1 .. n + 1 /\ kernel[n + 1].of = e.of /\ Fits(called[f], kernel[n + 1])
        OBVIOUS
      <4> QED BY <4>1, <4>2, <4>3, <1>4
    <3>2. row.kind = called[f].kind /\ row.pid = called[f].pid /\ row.at = called[f].at
          /\ ~row.fromEtw /\ called[f].of \in row.about
      BY <2>1, <2>3, <1>4 DEF CallRow
    <3> QED BY <3>1, <3>2, <2>3, <1>6 DEF CallRow
  <2> QED BY <2>2, <2>3
<1>8. ~Uncalled(e)
  BY DEF Uncalled
<1>9. KernelRows(told, n + 1, g)
  <2>1. g \in [L + 1 .. N -> 1 .. n + 1]
    <3>1. g \in [L + 1 .. N -> 1 .. n] /\ \A m \in 1 .. n : m \in 1 .. n + 1
      BY <1>2 DEF KernelRows
    <3> QED BY <3>1
  <2>2. \A i \in L + 1 .. N : told[i] = rows[i]
    BY <1>1, <1>6
  <2>3. \A m \in 1 .. n + 1 : Uncalled(kernel[m]) => m \in 1 .. n
    BY <1>8
  <2> QED BY <1>2, <1>6, <2>1, <2>2, <2>3 DEF KernelRows
<1> QED BY <1>6, <1>7, <1>9 DEF Joined, told

LEMMA MergeJoined ==
    ASSUME called \in Seq(Stamps), kernel \in Seq(Stamps), NEW n \in 0 .. Len(kernel) - 1,
           NEW rows, Joined(rows, n)
    PROVE  Joined(MergeEtw(rows, kernel[n + 1]), n + 1)
<1> DEFINE e == kernel[n + 1]
           I == Fitting(rows, e)
<1>1. e \in Stamps /\ Len(called) \in Nat /\ DOMAIN called = 1 .. Len(called)
  OBVIOUS
<1>2. I = {i \in 1 .. Len(called) : Fits(called[i], e)}
  BY <1>1, FittingIsCalled
<1>3. CASE I = {}
  <2>1. Uncalled(e)
    BY <1>1, <1>2, <1>3 DEF Uncalled
  <2>2. Joined(Append(rows, Row(e, TRUE)), n + 1)
    BY <2>1, AppendJoined
  <2> QED BY <1>3, <2>2, MergeIs
<1>4. CASE I # {}
  <2>1. I \in SUBSET Nat
    BY <1>2
  <2>2. FirstOf(I) \in I
    BY <2>1, <1>4, FirstIsOne
  <2>3. FirstOf(I) \in 1 .. Len(called) /\ Fits(called[FirstOf(I)], e)
    BY <2>2, <1>2
  <2>4. Joined([rows EXCEPT ![FirstOf(I)].about = @ \cup {e.of}], n + 1)
    <3> SUFFICES ASSUME NEW f, f = FirstOf(I)
                 PROVE  Joined([rows EXCEPT ![f].about = @ \cup {e.of}], n + 1)
      OBVIOUS
    <3>1. f \in 1 .. Len(called) /\ Fits(called[f], kernel[n + 1])
      BY <2>3
    <3> QED BY <3>1, MarkJoined
  <2> QED BY <1>4, <2>4, MergeIs
<1> QED BY <1>3, <1>4

LEMMA MergeType ==
    ASSUME NEW rows \in Seq(ViewRow), NEW e \in Stamps PROVE MergeEtw(rows, e) \in Seq(ViewRow)
<1> DEFINE I == Fitting(rows, e)
<1>1. CASE I = {}
  <2> DEFINE new == Row(e, TRUE)
  <2>1. new \in ViewRow
    BY RowType
  <2>2. MergeEtw(rows, e) = Append(rows, new)
    BY <1>1, MergeIs
  <2> HIDE DEF new
  <2> QED BY <2>1, <2>2
<1>2. CASE I # {}
  <2>1. I \in SUBSET Nat /\ I \subseteq DOMAIN rows
    BY DEF Fitting
  <2>2. FirstOf(I) \in I
    BY <2>1, <1>2, FirstIsOne
  <2>3. PICK f \in DOMAIN rows : f = FirstOf(I)
    BY <2>1, <2>2
  <2> DEFINE row == [rows[f] EXCEPT !.about = @ \cup {e.of}]
  <2>4. rows[f] \in ViewRow
    OBVIOUS
  <2>5. row \in ViewRow
    BY <2>4 DEF ViewRow, Stamps
  <2>6. MergeEtw(rows, e) = [rows EXCEPT ![f] = row]
    BY <1>2, <2>3, MergeIs
  <2> HIDE DEF row
  <2> QED BY <2>5, <2>6
<1> QED BY <1>1, <1>2

\* The steps of BuildProcessActivitySnapshot: m[n] are the rows after the first
\* n events of the kernel.
Merges(m) ==
    [n \in 0 .. Len(kernel) |->
        IF n = 0 THEN [i \in DOMAIN called |-> Row(called[i], FALSE)]
        ELSE MergeEtw(m[n - 1], kernel[n])]

LEMMA RowsSteps ==
    ASSUME called \in Seq(Stamps), kernel \in Seq(Stamps)
    PROVE  \E m : m = Merges(m) /\ Rows = m[Len(kernel)]
<1> DEFINE L == Len(kernel)
           base == [i \in DOMAIN called |-> Row(called[i], FALSE)]
           step == [x \in Seq(ViewRow) \X (1 .. L) |-> MergeEtw(x[1], kernel[x[2]])]
           merged == CHOOSE m : m = Merges(m)
<1>1. L \in Nat /\ base \in Seq(ViewRow)
  BY JoinedFirst DEF Joined
<1>2. step \in [Seq(ViewRow) \X (1 .. L) -> Seq(ViewRow)]
  <2>1. ASSUME NEW x \in Seq(ViewRow) \X (1 .. L) PROVE MergeEtw(x[1], kernel[x[2]]) \in Seq(ViewRow)
    <3>1. x[1] \in Seq(ViewRow) /\ kernel[x[2]] \in Stamps
      OBVIOUS
    <3> SUFFICES ASSUME NEW rows, NEW e, rows = x[1], e = kernel[x[2]]
                 PROVE  MergeEtw(rows, e) \in Seq(ViewRow)
      OBVIOUS
    <3> QED BY <3>1, MergeType
  <2> QED BY <2>1
<1>3. \E k \in [0 .. L -> Seq(ViewRow)] : Solves(k, base, step, L)
  <2> SUFFICES ASSUME NEW b, NEW s, NEW l, b = base, s = step, l = L
               PROVE  \E k \in [0 .. l -> Seq(ViewRow)] : Solves(k, b, s, l)
    OBVIOUS
  <2> HIDE DEF base, step, L
  <2>1. l \in Nat /\ b \in Seq(ViewRow) /\ s \in [Seq(ViewRow) \X (1 .. l) -> Seq(ViewRow)]
    BY <1>1, <1>2
  <2> QED BY <2>1, Recursion
<1>4. PICK k \in [0 .. L -> Seq(ViewRow)] : Solves(k, base, step, L)
  BY <1>3
<1>5. ASSUME NEW n \in 1 .. L PROVE k[n] = MergeEtw(k[n - 1], kernel[n])
  <2>1. k[n - 1] \in Seq(ViewRow)
    OBVIOUS
  <2>2. k[n] = step[<<k[n - 1], n>>]
    BY <1>4 DEF Solves
  <2> QED BY <2>1, <2>2
<1>6. k = Merges(k)
  <2>1. k[0] = base
    BY <1>4 DEF Solves
  <2>2. \A n \in 0 .. L : k[n] = Merges(k)[n]
    <3>1. \A n \in 0 .. L : n = 0 \/ (n # 0 /\ n \in 1 .. L)
      OBVIOUS
    <3> QED BY <1>5, <2>1, <3>1 DEF Merges
  <2> QED BY <2>2 DEF Merges
<1>7. merged = Merges(merged)
  BY <1>6, Zenon
<1>8. Rows = merged[L]
  BY Zenon DEF Rows, Merges
<1> HIDE DEF merged
<1> QED BY <1>7, <1>8

LEMMA RowsJoined ==
    ASSUME called \in Seq(Stamps), kernel \in Seq(Stamps)
    PROVE  Joined(Rows, Len(kernel))
<1>1. PICK m : m = Merges(m) /\ Rows = m[Len(kernel)]
  BY RowsSteps
<1> DEFINE L == Len(kernel)
           T == {n \in 0 .. L : Joined(m[n], n)}
<1>2. L \in Nat
  OBVIOUS
<1>3. m[0] = [i \in DOMAIN called |-> Row(called[i], FALSE)]
  <2>1. 0 \in 0 .. L
    BY <1>2
  <2> QED BY <1>1, <2>1, Zenon DEF Merges
<1>4. \A n \in 1 .. L : m[n] = MergeEtw(m[n - 1], kernel[n])
  <2>1. \A n \in 1 .. L : n \in 0 .. L /\ n # 0
    OBVIOUS
  <2> QED BY <1>1, <2>1, Zenon DEF Merges
<1>5. 0 \in T
  BY <1>2, <1>3, JoinedFirst
<1>6. ASSUME NEW n \in 0 .. L - 1, n \in T PROVE n + 1 \in T
  <2>1. n + 1 \in 1 .. L /\ n + 1 \in 0 .. L /\ (n + 1) - 1 = n
    BY <1>2
  <2>2. m[n + 1] = MergeEtw(m[n], kernel[n + 1])
    BY <1>4, <2>1
  <2>3. Joined(MergeEtw(m[n], kernel[n + 1]), n + 1)
    <3> SUFFICES ASSUME NEW rows, rows = m[n] PROVE Joined(MergeEtw(rows, kernel[n + 1]), n + 1)
      OBVIOUS
    <3>1. Joined(rows, n)
      BY <1>6
    <3> QED BY <3>1, MergeJoined
  <2> QED BY <2>1, <2>2, <2>3
<1>7. L \in T
  <2> SUFFICES ASSUME NEW l, NEW S, l = L, S = T PROVE l \in S
    OBVIOUS
  <2>1. l \in Nat /\ 0 \in S /\ \A n \in 0 .. l - 1 : n \in S => n + 1 \in S
    BY <1>2, <1>5, <1>6
  <2> HIDE DEF L, T
  <2>2. 0 .. l \subseteq S
    BY <2>1, Climbing
  <2> QED BY <2>1, <2>2
<1> QED BY <1>1, <1>7

\* The time s tells of the beginning or the end of n.
Known(s, i, kind, n) == i \in DOMAIN s /\ s[i].kind = kind /\ s[i].of = n /\ s[i].pid # NoRowPid

LEMMA KnownTimes ==
    ASSUME NEW kind, NEW n, NEW i
    PROVE  /\ Known(called, i, kind, n) => called[i].at \in Times(kind, n)
           /\ Known(kernel, i, kind, n) => kernel[i].at \in Times(kind, n)
BY DEF Known, Times

LEMMA TimesKnown ==
    ASSUME NEW kind, NEW n, Times(kind, n) # {}
    PROVE  (\E i : Known(called, i, kind, n)) \/ (\E i : Known(kernel, i, kind, n))
BY DEF Known, Times

LEMMA ApartTurns == ASSUME NEW a \in Nat, NEW b \in Nat PROVE Apart(a, b) = Apart(b, a)
BY DEF Apart

LEMMA PidType ==
    ASSUME ProcessInv, NEW n \in DOMAIN processes
    PROVE  /\ n \in 1 .. MaxProcesses /\ processes[n].pid \in RowPids
           /\ processes[n] \in [pid : RowPids, runs : BOOLEAN] /\ DOMAIN processes = 1 .. Len(processes)
<1>1. processes \in Seq([pid : RowPids, runs : BOOLEAN]) /\ Len(processes) <= MaxProcesses
  BY DEF ProcessInv, ProcessTypes
<1>2. n \in 1 .. Len(processes) /\ Len(processes) \in Nat /\ DOMAIN processes = 1 .. Len(processes)
  BY <1>1
<1>3. processes[n] \in [pid : RowPids, runs : BOOLEAN]
  <2> DEFINE S == [pid : RowPids, runs : BOOLEAN]
  <2> HIDE DEF S
  <2>1. processes \in Seq(S)
    BY <1>1 DEF S
  <2>2. processes[n] \in S
    BY <2>1
  <2> QED BY <2>2 DEF S
<1> QED BY <1>1, <1>2, <1>3, ProcessAssumption

\* The same pid within two seconds is the same process.
LEMMA SameProcess ==
    ASSUME ProcessInv, NEW kind, NEW n \in DOMAIN processes, Distinct(kind, n),
           NEW i, NEW j, i \in DOMAIN called, j \in DOMAIN kernel,
           called[i].kind = kind, Fits(called[i], kernel[j]),
           n \in {called[i].of, kernel[j].of}
    PROVE  called[i].of = n /\ kernel[j].of = n
<1>1. /\ called[i] \in Stamps /\ kernel[j] \in Stamps
      /\ called[i].of \in DOMAIN processes /\ kernel[j].of \in DOMAIN processes
      /\ called[i].pid \in {processes[called[i].of].pid, NoRowPid}
      /\ kernel[j].pid = processes[kernel[j].of].pid
  BY DEF ProcessInv, ProcessTypes, Told, About
<1>2. called[i].kind = kernel[j].kind /\ called[i].pid = kernel[j].pid
      /\ Apart(called[i].at, kernel[j].at) <= Window
  BY DEF Fits
<1>3. kernel[j].pid \in RowPids /\ kernel[j].pid # NoRowPid
  <2>1. processes[kernel[j].of].pid \in RowPids
    BY <1>1, PidType
  <2> QED BY <1>1, <2>1, ProcessAssumption
<1>4. Known(called, i, kind, called[i].of) /\ Known(kernel, j, kind, kernel[j].of)
  BY <1>2, <1>3 DEF Known
<1> DEFINE a == called[i].at
           b == kernel[j].at
           x == called[i].of
           y == kernel[j].of
<1>5. a \in Times(kind, x) /\ b \in Times(kind, y)
  <2> SUFFICES ASSUME NEW u, NEW v, u = x, v = y PROVE a \in Times(kind, u) /\ b \in Times(kind, v)
    OBVIOUS
  <2> QED BY <1>4, KnownTimes
<1>6. a \in Nat /\ b \in Nat /\ Apart(a, b) \in Int /\ Apart(b, a) = Apart(a, b) /\ Window \in Nat
  <2>1. a \in Nat /\ b \in Nat
    BY <1>1, ProcessAssumption DEF Stamps
  <2> QED BY <2>1, ProcessAssumption DEF Apart
<1>7. processes[x].pid = processes[y].pid
  BY <1>1, <1>2, <1>3
<1> HIDE DEF a, b, x, y
<1>8. ASSUME n = x, y # n PROVE FALSE
  <2>1. y \in DOMAIN processes \ {n}
    BY <1>1, <1>8 DEF y
  <2>2. Apart(a, b) > Window
    BY <1>5, <1>7, <1>8, <2>1 DEF Distinct
  <2> QED BY <2>2, <1>2, <1>6 DEF a, b
<1>9. ASSUME n = y, x # n PROVE FALSE
  <2>1. x \in DOMAIN processes \ {n}
    BY <1>1, <1>9 DEF x
  <2>2. Apart(b, a) > Window
    BY <1>5, <1>7, <1>9, <2>1 DEF Distinct
  <2> QED BY <2>2, <1>2, <1>6 DEF a, b
<1> QED BY <1>8, <1>9 DEF x, y

\* Where the process stands: in this row alone.
Stands(rows, i, kind, n) ==
    /\ i \in DOMAIN rows /\ rows[i].kind = kind /\ rows[i].about = {n}
    /\ \A j \in DOMAIN rows :
          rows[j].kind = kind /\ rows[j].pid # NoRowPid /\ n \in rows[j].about => i = j

\* Whom a row tells of: a call's, its own process when it is this one; a
\* kernel event's, that of the event.
LEMMA TellsOf ==
    ASSUME ProcessInv, NEW rows, Joined(rows, Len(kernel)), NEW kind, NEW n \in DOMAIN processes,
           Distinct(kind, n), NEW j \in 1 .. Len(called), rows[j].kind = kind, n \in rows[j].about
    PROVE  called[j].kind = kind /\ called[j].of = n /\ called[j].pid = rows[j].pid
<1>1. CallRow(rows[j], called[j], Len(kernel)) /\ j \in DOMAIN called
  BY DEF Joined, CallRows, ProcessInv, ProcessTypes
<1>2. called[j].kind = kind /\ called[j].pid = rows[j].pid
  BY <1>1 DEF CallRow
<1>3. CASE called[j].of # n
  <2>1. PICK m \in 1 .. Len(kernel) : kernel[m].of = n /\ Fits(called[j], kernel[m])
    BY <1>1, <1>3 DEF CallRow
  <2>2. m \in DOMAIN kernel
    BY DEF ProcessInv, ProcessTypes
  <2> QED BY <1>1, <1>2, <2>1, <2>2, SameProcess
<1> QED BY <1>2, <1>3

LEMMA CalledStands ==
    ASSUME ProcessInv, NEW rows, Joined(rows, Len(kernel)), NEW kind, NEW n \in DOMAIN processes,
           Distinct(kind, n), NEW i, Known(called, i, kind, n)
    PROVE  Stands(rows, i, kind, n)
<1>1. /\ rows \in Seq(ViewRow) /\ Len(called) \in Nat /\ Len(rows) \in Nat /\ Len(called) <= Len(rows)
      /\ DOMAIN called = 1 .. Len(called) /\ DOMAIN rows = 1 .. Len(rows) /\ i \in 1 .. Len(called)
      /\ DOMAIN kernel = 1 .. Len(kernel)
  BY DEF Joined, CallRows, Known, ProcessInv, ProcessTypes
<1>2. CallRow(rows[i], called[i], Len(kernel)) /\ i \in DOMAIN rows
  BY <1>1 DEF Joined, CallRows
<1>3. called[i].kind = kind /\ called[i].of = n /\ called[i].pid # NoRowPid
  BY DEF Known
<1>4. rows[i].kind = kind /\ n \in rows[i].about
  BY <1>2, <1>3 DEF CallRow
<1>5. ASSUME NEW x \in rows[i].about PROVE x = n
  <2>1. CASE x # n
    <3>1. PICK m \in 1 .. Len(kernel) : kernel[m].of = x /\ Fits(called[i], kernel[m])
      BY <1>2, <1>3, <2>1 DEF CallRow
    <3>2. kernel[m].of = n
      BY <1>1, <1>3, <3>1, SameProcess
    <3> QED BY <3>1, <3>2
  <2> QED BY <2>1
<1>6. ASSUME NEW j \in DOMAIN rows, rows[j].kind = kind, rows[j].pid # NoRowPid, n \in rows[j].about
      PROVE  i = j
  <2>1. CASE j \in 1 .. Len(called)
    <3>1. called[j].kind = kind /\ called[j].of = n
      BY <1>6, <2>1, TellsOf
    <3> QED BY <1>1, <1>3, <2>1, <3>1 DEF ProcessInv, ToldOnce, OncePer
  <2>2. CASE j \in Len(called) + 1 .. Len(rows)
    <3>1. PICK g : KernelRows(rows, Len(kernel), g)
      BY DEF Joined
    <3>2. g[j] \in 1 .. Len(kernel) /\ rows[j] = Row(kernel[g[j]], TRUE) /\ Uncalled(kernel[g[j]])
      BY <2>2, <3>1 DEF KernelRows
    <3>3. kernel[g[j]].kind = kind /\ kernel[g[j]].of = n /\ kernel[g[j]].pid # NoRowPid
      BY <3>2, <1>6 DEF Row
    <3>4. Known(kernel, g[j], kind, n)
      BY <1>1, <3>2, <3>3 DEF Known
    <3>5. called[i].at \in Times(kind, n) /\ kernel[g[j]].at \in Times(kind, n)
      BY <3>4, KnownTimes
    <3>6. Apart(called[i].at, kernel[g[j]].at) <= Window
      BY <3>5 DEF Distinct
    <3>7. called[i].pid = kernel[g[j]].pid
      BY <1>1, <1>3, <3>2, <3>3 DEF ProcessInv, Told
    <3>8. Fits(called[i], kernel[g[j]])
      BY <1>3, <3>3, <3>6, <3>7 DEF Fits
    <3> QED BY <1>1, <3>2, <3>8 DEF Uncalled
  <2> QED BY <1>1, <2>1, <2>2
<1>7. rows[i].about = {n}
  BY <1>4, <1>5
<1> QED BY <1>2, <1>4, <1>6, <1>7 DEF Stands

LEMMA KernelStands ==
    ASSUME ProcessInv, NEW rows, Joined(rows, Len(kernel)), NEW kind, NEW n \in DOMAIN processes,
           Distinct(kind, n), NEW m, Known(kernel, m, kind, n), \A i : ~Known(called, i, kind, n)
    PROVE  \E i : Stands(rows, i, kind, n)
<1>1. /\ rows \in Seq(ViewRow) /\ Len(called) \in Nat /\ Len(rows) \in Nat /\ Len(called) <= Len(rows)
      /\ DOMAIN called = 1 .. Len(called) /\ DOMAIN rows = 1 .. Len(rows)
      /\ DOMAIN kernel = 1 .. Len(kernel) /\ m \in 1 .. Len(kernel)
  BY DEF Joined, CallRows, Known, ProcessInv, ProcessTypes
<1>2. PICK g : KernelRows(rows, Len(kernel), g)
  BY DEF Joined
<1>3. kernel[m].kind = kind /\ kernel[m].of = n /\ kernel[m].pid # NoRowPid
  BY DEF Known
<1>4. ASSUME NEW i \in DOMAIN called, Fits(called[i], kernel[m]) PROVE FALSE
  <2>1. called[i].kind = kind /\ called[i].pid # NoRowPid
    BY <1>3, <1>4 DEF Fits
  <2>2. called[i].of = n
    BY <1>1, <1>3, <1>4, <2>1, SameProcess
  <2> QED BY <2>1, <2>2 DEF Known
<1>5. PICK i \in Len(called) + 1 .. Len(rows) : g[i] = m
  BY <1>1, <1>2, <1>4 DEF KernelRows, Uncalled
<1>6. i \in DOMAIN rows /\ rows[i] = Row(kernel[m], TRUE)
  <2>1. rows[i] = Row(kernel[g[i]], TRUE)
    BY <1>2 DEF KernelRows
  <2> QED BY <1>1, <1>5, <2>1
<1>7. rows[i].kind = kind /\ rows[i].about = {n}
  BY <1>3, <1>6 DEF Row
<1>8. ASSUME NEW j \in DOMAIN rows, rows[j].kind = kind, rows[j].pid # NoRowPid, n \in rows[j].about
      PROVE  i = j
  <2>1. CASE j \in 1 .. Len(called)
    <3>1. called[j].kind = kind /\ called[j].of = n /\ called[j].pid = rows[j].pid
      BY <1>8, <2>1, TellsOf
    <3> QED BY <1>1, <1>8, <2>1, <3>1 DEF Known
  <2>2. CASE j \in Len(called) + 1 .. Len(rows)
    <3>1. g[j] \in 1 .. Len(kernel) /\ rows[j] = Row(kernel[g[j]], TRUE)
      BY <2>2, <1>2 DEF KernelRows
    <3>2. kernel[g[j]].kind = kind /\ kernel[g[j]].of = n
      BY <3>1, <1>8 DEF Row
    <3>3. g[j] = m
      BY <1>1, <1>3, <3>1, <3>2 DEF ProcessInv, ToldOnce, OncePer
    <3>4. i < j => g[i] < g[j]
      BY <1>2, <1>5, <2>2 DEF KernelRows
    <3>5. j < i => g[j] < g[i]
      BY <1>2, <1>5, <2>2 DEF KernelRows
    <3>6. g[i] \in Nat /\ i \in Nat /\ j \in Nat
      BY <1>1, <1>5, <2>2
    <3> QED BY <3>3, <3>4, <3>5, <3>6, <1>5
  <2> QED BY <1>1, <2>1, <2>2
<1> QED BY <1>6, <1>7, <1>8 DEF Stands

LEMMA ProcessInvRows == ProcessInv => OneRowPerProcess
<1> SUFFICES ASSUME ProcessInv PROVE OneRowPerProcess
  OBVIOUS
<1>1. PICK rows : rows = Rows /\ Joined(rows, Len(kernel))
  BY RowsJoined DEF ProcessInv, ProcessTypes
<1>2. ASSUME NEW n \in DOMAIN processes, NEW kind \in {"start", "stop"},
             Times(kind, n) # {}, Distinct(kind, n)
      PROVE  \E i : Stands(rows, i, kind, n)
  <2>1. CASE \E i : Known(called, i, kind, n)
    BY <1>1, <1>2, <2>1, CalledStands
  <2>2. CASE \A i : ~Known(called, i, kind, n)
    <3>1. PICK m : Known(kernel, m, kind, n)
      BY <1>2, <2>2, TimesKnown
    <3> QED BY <1>1, <1>2, <2>2, <3>1, KernelStands
  <2> QED BY <2>1, <2>2
<1>3. ASSUME NEW n \in DOMAIN processes, NEW kind \in {"start", "stop"},
             Times(kind, n) # {}, Distinct(kind, n)
      PROVE  \E i \in DOMAIN Rows :
                 /\ Rows[i].kind = kind /\ Rows[i].about = {n}
                 /\ \A j \in DOMAIN Rows :
                       Rows[j].kind = kind /\ Rows[j].pid # NoRowPid /\ n \in Rows[j].about
                           => i = j
  <2>1. PICK i : Stands(rows, i, kind, n)
    BY <1>2, <1>3
  <2> HIDE DEF Rows
  <2> QED BY <1>1, <2>1, Zenon DEF Stands
<1> QED BY <1>3 DEF OneRowPerProcess

LEMMA ProcessInvInit == ProcessInit => ProcessInv
BY ProcessAssumption DEF ProcessInit, ProcessInv, ProcessTypes, Told, ToldOnce, OncePer

\* One more event, of somebody who is told of for the first time, with the pid.
LEMMA TellOnce ==
    ASSUME NEW s \in Seq(Stamps), NEW e \in Stamps, OncePer(s),
           \A i \in DOMAIN s : ~(s[i].kind = e.kind /\ s[i].of = e.of)
    PROVE  /\ Append(s, e) \in Seq(Stamps) /\ OncePer(Append(s, e))
           /\ \A i \in DOMAIN Append(s, e) : (i \in DOMAIN s /\ Append(s, e)[i] = s[i]) \/ Append(s, e)[i] = e
<1> DEFINE t == Append(s, e)
<1>1. t \in Seq(Stamps) /\ Len(t) = Len(s) + 1 /\ Len(s) \in Nat
      /\ DOMAIN t = 1 .. Len(s) + 1 /\ DOMAIN s = 1 .. Len(s)
  OBVIOUS
<1>2. t[Len(s) + 1] = e /\ \A i \in 1 .. Len(s) : t[i] = s[i]
  OBVIOUS
<1>3. \A i \in 1 .. Len(s) + 1 : i \in 1 .. Len(s) \/ i = Len(s) + 1
  BY <1>1
<1> HIDE DEF t
<1>4. OncePer(t)
  BY <1>1, <1>2, <1>3 DEF OncePer
<1> QED BY <1>1, <1>2, <1>3, <1>4 DEF t

LEMMA EventType ==
    ASSUME ProcessInv, NEW kind \in {"start", "stop"}, NEW p \in RowPids \cup {NoRowPid},
           NEW n \in 1 .. MaxProcesses
    PROVE  /\ Event(kind, p, n) \in Stamps
           /\ Event(kind, p, n).kind = kind /\ Event(kind, p, n).pid = p /\ Event(kind, p, n).of = n
BY DEF Event, Stamps, ProcessInv, ProcessTypes

LEMMA CreateStep ==
    ASSUME ProcessInv, NEW p \in RowPids, NEW hooked, NEW traced, CreateProcess(p, hooked, traced)
    PROVE  ProcessInv'
<1> DEFINE n == Len(processes) + 1
           e == Event("start", p, n)
<1>1. /\ n \in Nat /\ n <= MaxProcesses /\ n \in 1 .. MaxProcesses
      /\ DOMAIN processes = 1 .. n - 1 /\ n \notin DOMAIN processes
  BY ProcessAssumption DEF ProcessInv, ProcessTypes, CreateProcess
<1>2. /\ processes' = Append(processes, [pid |-> p, runs |-> TRUE])
      /\ creating' = (IF hooked THEN creating \cup {n} ELSE creating)
      /\ kernel' = (IF traced THEN Append(kernel, e) ELSE kernel)
      /\ clock' = clock /\ called' = called
  BY DEF CreateProcess, Traced
<1>3. e \in Stamps /\ e.kind = "start" /\ e.pid = p /\ e.of = n
  BY <1>1, EventType
<1> HIDE DEF e
<1>4. /\ processes' \in Seq([pid : RowPids, runs : BOOLEAN]) /\ Len(processes') = n
      /\ DOMAIN processes' = 1 .. n /\ processes'[n] = [pid |-> p, runs |-> TRUE]
      /\ \A i \in DOMAIN processes : processes'[i] = processes[i] /\ i \in DOMAIN processes'
  <2> DEFINE new == [pid |-> p, runs |-> TRUE]
  <2>1. new \in [pid : RowPids, runs : BOOLEAN]
    OBVIOUS
  <2>2. processes \in Seq([pid : RowPids, runs : BOOLEAN])
    BY DEF ProcessInv, ProcessTypes
  <2> HIDE DEF new
  <2>3. processes' = Append(processes, new)
    BY <1>2 DEF new
  <2>4. /\ processes' \in Seq([pid : RowPids, runs : BOOLEAN]) /\ Len(processes') = n
        /\ DOMAIN processes' = 1 .. n /\ processes'[n] = new
        /\ \A i \in DOMAIN processes : processes'[i] = processes[i] /\ i \in DOMAIN processes'
    BY <2>1, <2>2, <2>3
  <2> QED BY <2>4 DEF new
<1>5. \A i \in DOMAIN kernel : kernel[i].of \in DOMAIN processes
  BY DEF ProcessInv, Told, About
<1>6. /\ kernel' \in Seq(Stamps) /\ OncePer(kernel')
      /\ \A i \in DOMAIN kernel' : (i \in DOMAIN kernel /\ kernel'[i] = kernel[i]) \/ kernel'[i] = e
  <2>1. CASE traced
    <3>1. \A i \in DOMAIN kernel : ~(kernel[i].kind = e.kind /\ kernel[i].of = e.of)
      BY <1>1, <1>3, <1>5
    <3> SUFFICES ASSUME NEW s, NEW v, s = kernel, v = e
                 PROVE  /\ Append(s, v) \in Seq(Stamps) /\ OncePer(Append(s, v))
                        /\ \A i \in DOMAIN Append(s, v) :
                              (i \in DOMAIN s /\ Append(s, v)[i] = s[i]) \/ Append(s, v)[i] = v
      BY <1>2, <2>1
    <3>2. s \in Seq(Stamps) /\ v \in Stamps /\ OncePer(s)
      BY <1>3 DEF ProcessInv, ProcessTypes, ToldOnce
    <3> QED BY <3>1, <3>2, TellOnce
  <2>2. CASE ~traced
    BY <1>2, <2>2 DEF ProcessInv, ProcessTypes, ToldOnce
  <2> QED BY <2>1, <2>2
<1>7. ProcessTypes'
  BY <1>1, <1>2, <1>4, <1>6 DEF ProcessInv, ProcessTypes
<1>8. Told'
  <2>1. \A i \in DOMAIN called : called[i].of \in DOMAIN processes
    BY DEF ProcessInv, Told, About
  <2>2. n \in DOMAIN processes' /\ e.pid = processes'[e.of].pid
    BY <1>1, <1>3, <1>4
  <2>3. \A i \in DOMAIN called' :
           About(called[i])' /\ called'[i].pid \in {processes'[called'[i].of].pid, NoRowPid}
    BY <1>2, <1>4, <2>1 DEF ProcessInv, Told, About
  <2>4. \A i \in DOMAIN kernel' : About(kernel[i])' /\ kernel'[i].pid = processes'[kernel'[i].of].pid
    BY <1>3, <1>4, <1>5, <1>6, <2>2 DEF ProcessInv, Told, About
  <2> QED BY <2>3, <2>4 DEF Told
<1>9. ToldOnce'
  <2>1. OncePer(called)' /\ OncePer(kernel)'
    BY <1>2, <1>6 DEF ProcessInv, ToldOnce, OncePer
  <2>2. \A i \in DOMAIN called' : called'[i].kind = "start" => called'[i].of \notin creating'
    BY <1>1, <1>2 DEF ProcessInv, ToldOnce, Told, About
  <2>3. \A i \in DOMAIN kernel' : kernel'[i].kind = "stop" => ~processes'[kernel'[i].of].runs
    BY <1>3, <1>4, <1>5, <1>6 DEF ProcessInv, ToldOnce
  <2> QED BY <2>1, <2>2, <2>3 DEF ToldOnce
<1> QED BY <1>7, <1>8, <1>9 DEF ProcessInv

\* A call is reported, of a process whose beginning, or end, no call has told of.
LEMMA CalledStep ==
    ASSUME ProcessInv, NEW kind \in {"start", "stop"}, NEW p, NEW n \in DOMAIN processes,
           p \in {processes[n].pid, NoRowPid},
           \A i \in DOMAIN called : ~(called[i].kind = kind /\ called[i].of = n),
           called' = Append(called, Event(kind, p, n)),
           creating' \subseteq creating, kind = "start" => n \notin creating',
           UNCHANGED <<clock, processes, kernel>>
    PROVE  ProcessInv'
<1> DEFINE e == Event(kind, p, n)
<1>1. n \in 1 .. MaxProcesses /\ processes[n].pid \in RowPids /\ DOMAIN processes = 1 .. Len(processes)
  BY PidType
<1>2. e \in Stamps /\ e.kind = kind /\ e.pid = p /\ e.of = n
  <2>1. p \in RowPids \cup {NoRowPid}
    BY <1>1
  <2> HIDE DEF e
  <2>2. n \in 1 .. MaxProcesses
    BY <1>1
  <2>3. clock \in 0 .. MaxClock
    BY DEF ProcessInv, ProcessTypes
  <2>4. e = [kind |-> kind, pid |-> p, at |-> clock, of |-> n]
    BY DEF e, Event
  <2> QED BY <2>1, <2>2, <2>3, <2>4 DEF Stamps
<1> HIDE DEF e
<1>3. /\ called' \in Seq(Stamps) /\ OncePer(called')
      /\ \A i \in DOMAIN called' : (i \in DOMAIN called /\ called'[i] = called[i]) \/ called'[i] = e
  <2>1. called' = Append(called, e) /\ \A i \in DOMAIN called : ~(called[i].kind = e.kind /\ called[i].of = e.of)
    BY <1>2 DEF e
  <2> SUFFICES ASSUME NEW s, NEW v, s = called, v = e
               PROVE  /\ Append(s, v) \in Seq(Stamps) /\ OncePer(Append(s, v))
                      /\ \A i \in DOMAIN Append(s, v) :
                            (i \in DOMAIN s /\ Append(s, v)[i] = s[i]) \/ Append(s, v)[i] = v
    BY <2>1
  <2>2. s \in Seq(Stamps) /\ v \in Stamps /\ OncePer(s)
    BY <1>2 DEF ProcessInv, ProcessTypes, ToldOnce
  <2> QED BY <2>1, <2>2, TellOnce
<1>4. ProcessTypes'
  BY <1>3 DEF ProcessInv, ProcessTypes
<1>5. Told'
  BY <1>2, <1>3 DEF ProcessInv, Told, About
<1>6. ToldOnce'
  <2>1. OncePer(called)' /\ OncePer(kernel)'
    BY <1>3 DEF ProcessInv, ToldOnce, OncePer
  <2>2. \A i \in DOMAIN called' : called'[i].kind = "start" => called'[i].of \notin creating'
    BY <1>2, <1>3 DEF ProcessInv, ToldOnce
  <2> QED BY <2>1, <2>2 DEF ProcessInv, ToldOnce
<1> QED BY <1>4, <1>5, <1>6 DEF ProcessInv

LEMMA ReportCreationStep ==
    ASSUME ProcessInv, NEW n \in DOMAIN processes, NEW named, ReportCreation(n, named) PROVE ProcessInv'
<1> DEFINE p == IF named THEN processes[n].pid ELSE NoRowPid
<1>1. /\ n \in creating /\ creating' = creating \ {n} /\ called' = Append(called, Event("start", p, n))
      /\ UNCHANGED <<clock, processes, kernel>>
  BY DEF ReportCreation
<1>2. p \in {processes[n].pid, NoRowPid}
  OBVIOUS
<1> HIDE DEF p
<1>3. \A i \in DOMAIN called : ~(called[i].kind = "start" /\ called[i].of = n)
  BY <1>1 DEF ProcessInv, ToldOnce
<1> SUFFICES ASSUME NEW v, v = p PROVE ProcessInv'
  OBVIOUS
<1>4. called' = Append(called, Event("start", v, n)) /\ v \in {processes[n].pid, NoRowPid}
  BY <1>1, <1>2
<1>5. creating' \subseteq creating /\ n \notin creating'
  BY <1>1
<1> QED BY <1>1, <1>3, <1>4, <1>5, CalledStep

LEMMA ReportEndStep ==
    ASSUME ProcessInv, NEW n \in DOMAIN processes, ReportEnd(n) PROVE ProcessInv'
<1>1. /\ \A i \in DOMAIN called : ~(called[i].kind = "stop" /\ called[i].of = n)
      /\ called' = Append(called, Event("stop", processes[n].pid, n))
      /\ creating' = creating /\ UNCHANGED <<clock, processes, kernel>>
  BY DEF ReportEnd
<1> SUFFICES ASSUME NEW v, v = processes[n].pid PROVE ProcessInv'
  OBVIOUS
<1>2. called' = Append(called, Event("stop", v, n)) /\ v \in {processes[n].pid, NoRowPid}
  BY <1>1
<1>3. creating' \subseteq creating
  BY <1>1
<1> QED BY <1>1, <1>2, <1>3, CalledStep

LEMMA EndProcessStep ==
    ASSUME ProcessInv, NEW n \in DOMAIN processes, NEW traced, EndProcess(n, traced) PROVE ProcessInv'
<1> DEFINE e == Event("stop", processes[n].pid, n)
<1>1. /\ processes[n].runs /\ processes' = [processes EXCEPT ![n].runs = FALSE]
      /\ kernel' = (IF traced THEN Append(kernel, e) ELSE kernel)
      /\ UNCHANGED <<clock, creating, called>>
  BY DEF EndProcess, Traced
<1>2. n \in 1 .. MaxProcesses /\ processes[n].pid \in RowPids /\ DOMAIN processes = 1 .. Len(processes)
      /\ processes[n] \in [pid : RowPids, runs : BOOLEAN]
  BY PidType
<1>3. e \in Stamps /\ e.kind = "stop" /\ e.pid = processes[n].pid /\ e.of = n
  <2> SUFFICES ASSUME NEW v, v = processes[n].pid
               PROVE  /\ Event("stop", v, n) \in Stamps /\ Event("stop", v, n).kind = "stop"
                      /\ Event("stop", v, n).pid = v /\ Event("stop", v, n).of = n
    OBVIOUS
  <2> QED BY <1>2, EventType
<1> HIDE DEF e
<1>4. /\ kernel' \in Seq(Stamps) /\ OncePer(kernel')
      /\ \A i \in DOMAIN kernel' : (i \in DOMAIN kernel /\ kernel'[i] = kernel[i]) \/ kernel'[i] = e
  <2>1. CASE traced
    <3>1. \A i \in DOMAIN kernel : ~(kernel[i].kind = e.kind /\ kernel[i].of = e.of)
      BY <1>1, <1>3 DEF ProcessInv, ToldOnce
    <3> SUFFICES ASSUME NEW s, NEW v, s = kernel, v = e
                 PROVE  /\ Append(s, v) \in Seq(Stamps) /\ OncePer(Append(s, v))
                        /\ \A i \in DOMAIN Append(s, v) :
                              (i \in DOMAIN s /\ Append(s, v)[i] = s[i]) \/ Append(s, v)[i] = v
      BY <1>1, <2>1
    <3>2. s \in Seq(Stamps) /\ v \in Stamps /\ OncePer(s)
      BY <1>3 DEF ProcessInv, ProcessTypes, ToldOnce
    <3> QED BY <3>1, <3>2, TellOnce
  <2>2. CASE ~traced
    BY <1>1, <2>2 DEF ProcessInv, ProcessTypes, ToldOnce
  <2> QED BY <2>1, <2>2
<1>5. /\ processes' \in Seq([pid : RowPids, runs : BOOLEAN]) /\ Len(processes') = Len(processes)
      /\ DOMAIN processes' = DOMAIN processes /\ ~processes'[n].runs
      /\ \A x \in DOMAIN processes : processes'[x].pid = processes[x].pid
                                     /\ (~processes[x].runs => ~processes'[x].runs)
  <2> DEFINE new == [processes[n] EXCEPT !.runs = FALSE]
  <2>1. new \in [pid : RowPids, runs : BOOLEAN] /\ new.pid = processes[n].pid /\ new.runs = FALSE
    BY <1>2
  <2>2. processes' = [processes EXCEPT ![n] = new]
    BY <1>1
  <2> HIDE DEF new
  <2>3. processes \in Seq([pid : RowPids, runs : BOOLEAN])
    BY DEF ProcessInv, ProcessTypes
  <2>4. /\ processes' \in Seq([pid : RowPids, runs : BOOLEAN]) /\ Len(processes') = Len(processes)
        /\ DOMAIN processes' = DOMAIN processes /\ processes'[n] = new
        /\ \A x \in DOMAIN processes : x # n => processes'[x] = processes[x]
    BY <2>1, <2>2, <2>3
  <2> QED BY <2>1, <2>4
<1>6. ProcessTypes'
  BY <1>1, <1>4, <1>5 DEF ProcessInv, ProcessTypes
<1>7. Told'
  <2>1. \A i \in DOMAIN called :
           called[i].of \in DOMAIN processes /\ called[i].pid \in {processes[called[i].of].pid, NoRowPid}
    BY DEF ProcessInv, Told, About
  <2>2. \A i \in DOMAIN kernel :
           kernel[i].of \in DOMAIN processes /\ kernel[i].pid = processes[kernel[i].of].pid
    BY DEF ProcessInv, Told, About
  <2>3. \A i \in DOMAIN called' :
           About(called[i])' /\ called'[i].pid \in {processes'[called'[i].of].pid, NoRowPid}
    BY <1>1, <1>5, <2>1 DEF About
  <2>4. \A i \in DOMAIN kernel' : About(kernel[i])' /\ kernel'[i].pid = processes'[kernel'[i].of].pid
    BY <1>3, <1>4, <1>5, <2>2 DEF About
  <2> QED BY <2>3, <2>4 DEF Told
<1>8. ToldOnce'
  <2>1. OncePer(called)' /\ OncePer(kernel)'
    BY <1>1, <1>4 DEF ProcessInv, ToldOnce, OncePer
  <2>2. \A i \in DOMAIN kernel' : kernel'[i].kind = "stop" => ~processes'[kernel'[i].of].runs
    BY <1>3, <1>4, <1>5 DEF ProcessInv, ToldOnce, Told, About
  <2> QED BY <1>1, <2>1, <2>2 DEF ProcessInv, ToldOnce
<1> QED BY <1>6, <1>7, <1>8 DEF ProcessInv

LEMMA ProcessInvStep == ProcessInv /\ [ProcessNext]_processVars => ProcessInv'
<1> SUFFICES ASSUME ProcessInv, [ProcessNext]_processVars PROVE ProcessInv'
  OBVIOUS
<1>1. CASE UNCHANGED processVars
  BY <1>1 DEF processVars, ProcessInv, ProcessTypes, Told, ToldOnce, OncePer, About
<1>2. CASE Tick
  <2>1. clock' \in 0 .. MaxClock
    BY <1>2, ProcessAssumption DEF Tick, ProcessInv, ProcessTypes
  <2> QED BY <1>2, <2>1 DEF Tick, ProcessInv, ProcessTypes, Told, ToldOnce, OncePer, About
<1>3. CASE ProcessNext
  BY <1>2, <1>3, CreateStep, ReportCreationStep, ReportEndStep, EndProcessStep DEF ProcessNext
<1> QED BY <1>1, <1>3

\* Whatever processes begin and end, and in whatever order the two sources tell
\* of it, what either has told of a process stands in one row, and alone.
THEOREM OneRowPerProcessHolds == ProcessSpec => []OneRowPerProcess
BY ProcessInvInit, ProcessInvStep, ProcessInvRows, PTL DEF ProcessSpec


-----------------------------------------------------------------------------
(* What the Registry Activity view follows of the registry.                *)

Names == {Root} \cup KeyHandles \cup UNION {{k[n] : n \in DOMAIN k} : k \in Keys}
KeyPaths == Seq(Names)
States == {"Created", "Deleted", "Closed", "Failed"} \cup KeyData
RegistryCalls ==
    [op : {"open", "create", "set", "delete value", "delete key", "query", "close"}, api : {"Reg", "Nt"},
     base : KeyHandles \cup {Root}, sub : KeyPaths, handle : KeyHandles \cup {Root}, state : States, ok : BOOLEAN]

RegistryTypes ==
    /\ registry \in [Items -> States]
    /\ opened \in [KeyHandles -> Keys \cup {NoKey}]
    /\ report \in [RegThreads -> RegistryCalls \cup {Idle}]
    /\ \A t \in RegThreads : report[t].op = "close" => report[t].base \in KeyHandles
    /\ mapped \in [KeyHandles -> KeyPaths]
    /\ shown \in [Items -> SUBSET States]
    /\ misread \subseteq KeyHandles
    /\ knowledge \in [Items -> {"none", "known", "in doubt"}]

\* A call that stands out and is about a key.
Standing(t) == report[t].ok /\ report[t].op # "close"
TargetOf(e) == KeyOf(e.base) \o e.sub

\* Its handle stays open, and what it opens is open already.
Calling ==
    \A t \in RegThreads : Standing(t) =>
        /\ report[t].base # Root => opened[report[t].base] # NoKey /\ ~Opening(report[t].base)
        /\ TargetOf(report[t]) \in Keys
        /\ report[t].op \in {"open", "create"}
           => report[t].handle \in KeyHandles /\ opened[report[t].handle] = TargetOf(report[t])

\* The view has each handle's key, or it is misread.
Following ==
    \A h \in KeyHandles : opened[h] # NoKey /\ h \notin misread /\ ~Opening(h) => mapped[h] = opened[h]

\* A report says what is still so, or it is in doubt.
Says(e) ==
    /\ Changes(e) => knowledge[ItemOf(e)] = "in doubt" \/ registry[ItemOf(e)] = e.state
    /\ e.op = "query" => \/ knowledge[ItemOf(e)] = "in doubt" \/ Changing(ItemOf(e))
                         \/ shown[ItemOf(e)] # {} \/ registry[ItemOf(e)] = e.state
Reporting == \A t \in RegThreads : Standing(t) => Says(report[t])

RegistryInv == RegistryTypes /\ Calling /\ Following /\ Reporting /\ FinalStateTrue

LEMMA KeysArePaths ==
    Keys \subseteq KeyPaths /\ <<Root>> \in KeyPaths /\ NoKey \in KeyPaths /\ NoKey \notin Keys /\ <<Root>> \notin Keys
<1>1. ASSUME NEW k \in Keys PROVE k \in KeyPaths /\ Len(k) > 1
  <2>1. k \in Seq({k[n] : n \in DOMAIN k}) /\ Len(k) > 1
    BY RegistryAssumption
  <2>2. {k[n] : n \in DOMAIN k} \subseteq Names
    BY DEF Names
  <2>3. PICK S : S = {k[n] : n \in DOMAIN k}
    OBVIOUS
  <2>4. k \in Seq(S) /\ S \subseteq Names
    BY <2>1, <2>2, <2>3
  <2>5. k \in Seq(Names)
    BY <2>4
  <2> QED BY <2>1, <2>5 DEF KeyPaths
<1>2. <<Root>> \in KeyPaths /\ Len(<<Root>>) = 1
  BY DEF KeyPaths, Names
<1>3. NoKey \in KeyPaths /\ Len(NoKey) = 0
  BY DEF KeyPaths, NoKey
<1>4. Keys \subseteq KeyPaths
  BY <1>1
<1>5. NoKey \notin Keys
  BY <1>1, <1>3
<1>6. <<Root>> \notin Keys
  <2>1. PICK q : q = <<Root>>
    OBVIOUS
  <2>2. Len(q) = 1
    BY <1>2, <2>1
  <2>3. ASSUME q \in Keys PROVE FALSE
    <3>1. Len(q) > 1
      BY <1>1, <2>3
    <3> QED BY <2>2, <3>1
  <2> QED BY <2>1, <2>3
<1> QED BY <1>2, <1>3, <1>4, <1>5, <1>6

\* A path below another one, and the rest of it.
LEMMA Rejoined ==
    ASSUME NEW k \in KeyPaths, NEW path \in KeyPaths, Below(k, path)
    PROVE  Rest(k, path) \in KeyPaths /\ path \o Rest(k, path) = k
<1>1. PICK n \in Nat, m \in Nat : n = Len(path) /\ m = Len(k) /\ n <= m
  <2>1. Len(path) \in Nat /\ Len(k) \in Nat
    BY DEF KeyPaths
  <2>2. Len(path) <= Len(k)
    BY DEF Below
  <2> QED BY <2>1, <2>2
<1>2. k \in Seq(Names) /\ path \in Seq(Names)
  BY DEF KeyPaths
<1>3. \A i \in 1 .. m : k[i] \in Names
  BY <1>1, <1>2
<1>4. \A i \in 1 .. n : path[i] = k[i]
  <2>1. \A i \in 1 .. n : k[i] \in Names
    BY <1>1, <1>3
  <2>2. \A i \in 1 .. n - 1 + 1 : SubSeq(k, 1, n)[i] = k[1 + i - 1]
    BY <1>1, <2>1, SubSeqProperties
  <2>3. SubSeq(k, 1, n) = path
    BY <1>1 DEF Below
  <2> QED BY <1>1, <2>2, <2>3
<1>5. PICK r : r = SubSeq(k, n + 1, m)
  OBVIOUS
<1>6. /\ r \in Seq(Names) /\ Len(r) = m - n
      /\ \A i \in 1 .. m - n : r[i] = k[n + i]
  <2>1. \A i \in n + 1 .. m : k[i] \in Names
    BY <1>1, <1>3
  <2>2. /\ SubSeq(k, n + 1, m) \in Seq(Names)
        /\ Len(SubSeq(k, n + 1, m)) = IF n + 1 <= m THEN m - (n + 1) + 1 ELSE 0
        /\ \A i \in 1 .. m - (n + 1) + 1 : SubSeq(k, n + 1, m)[i] = k[(n + 1) + i - 1]
    BY <1>1, <2>1, SubSeqProperties
  <2>3. r \in Seq(Names)
    BY <1>5, <2>2
  <2>4. Len(r) = m - n
    BY <1>1, <1>5, <2>2
  <2>5. ASSUME NEW i \in 1 .. m - n PROVE r[i] = k[n + i]
    <3>1. (n + 1) + i - 1 = n + i /\ m - (n + 1) + 1 = m - n
      BY <1>1
    <3> QED BY <1>5, <2>2, <2>5, <3>1
  <2> QED BY <2>3, <2>4, <2>5
<1>7. /\ path \o r \in Seq(Names) /\ Len(path \o r) = n + (m - n)
      /\ \A i \in 1 .. n + (m - n) : (path \o r)[i] = IF i <= n THEN path[i] ELSE r[i - n]
  BY <1>1, <1>2, <1>6, ConcatProperties
<1>8. PICK s : s = path \o r
  OBVIOUS
<1>9. s \in Seq(Names) /\ Len(s) = m
  <2>1. n + (m - n) = m
    BY <1>1
  <2>2. s \in Seq(Names) /\ Len(s) = n + (m - n)
    BY <1>7, <1>8
  <2> QED BY <2>1, <2>2
<1>10. ASSUME NEW i \in 1 .. m PROVE s[i] = k[i]
  <2>1. s[i] = IF i <= n THEN path[i] ELSE r[i - n]
    BY <1>1, <1>7, <1>8
  <2>2. CASE i <= n
    BY <1>1, <1>4, <2>1, <2>2
  <2>3. CASE ~(i <= n)
    <3>1. i - n \in 1 .. m - n /\ n + (i - n) = i
      BY <1>1, <2>3
    <3>2. r[i - n] = k[n + (i - n)]
      BY <1>6, <3>1
    <3> QED BY <2>1, <2>3, <3>1, <3>2
  <2> QED BY <2>2, <2>3
<1>11. s = k
  BY <1>1, <1>2, <1>9, <1>10
<1> QED BY <1>1, <1>5, <1>6, <1>8, <1>11 DEF Rest, KeyPaths

LEMMA BelowItself == ASSUME NEW k \in KeyPaths PROVE Below(k, k)
<1>1. PICK m \in Nat : m = Len(k)
  BY DEF KeyPaths
<1>2. k \in Seq(Names) /\ \A i \in 1 .. m : k[i] \in Names
  BY <1>1 DEF KeyPaths
<1>3. /\ SubSeq(k, 1, m) \in Seq(Names)
      /\ Len(SubSeq(k, 1, m)) = IF 1 <= m THEN m - 1 + 1 ELSE 0
      /\ \A i \in 1 .. m - 1 + 1 : SubSeq(k, 1, m)[i] = k[1 + i - 1]
  BY <1>1, <1>2, SubSeqProperties
<1>4. PICK s : s = SubSeq(k, 1, m)
  OBVIOUS
<1>5. s \in Seq(Names) /\ Len(s) = m
  BY <1>1, <1>3, <1>4
<1>6. \A i \in 1 .. m : s[i] = k[i]
  BY <1>1, <1>3, <1>4
<1>7. s = k
  BY <1>1, <1>2, <1>5, <1>6
<1> QED BY <1>1, <1>4, <1>7 DEF Below

\* What a thread that has nothing to report may call.
LEMMA CallsAre ==
    ASSUME RegistryTypes, NEW t \in RegThreads, report[t] # Idle
    PROVE  report[t] \in RegistryCalls
BY DEF RegistryTypes
LEMMA StandingIsCall ==
    ASSUME RegistryTypes, NEW t \in RegThreads, Standing(t)
    PROVE  report[t] \in RegistryCalls /\ report[t] # Idle /\ report[t].ok = TRUE
<1>1. Idle.ok = FALSE
  BY DEF Idle
<1>2. report[t] # Idle
  BY <1>1 DEF Standing
<1>3. report[t] \in RegistryCalls
  BY <1>2, CallsAre
<1>4. report[t].ok \in BOOLEAN
  BY <1>3 DEF RegistryCalls
<1> QED BY <1>2, <1>3, <1>4 DEF Standing

\* The key of a usable handle.
LEMMA KeyOfType ==
    ASSUME RegistryTypes, NEW b \in KeyHandles \cup {Root}, b # Root => opened[b] # NoKey
    PROVE  KeyOf(b) \in KeyPaths /\ (b # Root => KeyOf(b) = opened[b] /\ opened[b] \in Keys)
<1>1. CASE b = Root
  BY <1>1, KeysArePaths DEF KeyOf
<1>2. CASE b # Root
  BY <1>2, KeysArePaths DEF KeyOf, RegistryTypes
<1> QED BY <1>1, <1>2

LEMMA RestIs ==
    ASSUME RegistryTypes, NEW b \in KeyHandles \cup {Root}, b # Root => opened[b] # NoKey,
           NEW k \in Keys, Below(k, KeyOf(b))
    PROVE  Rest(k, KeyOf(b)) \in KeyPaths /\ KeyOf(b) \o Rest(k, KeyOf(b)) = k
<1>1. KeyOf(b) \in KeyPaths /\ k \in KeyPaths
  BY KeyOfType, KeysArePaths
<1> QED BY <1>1, Rejoined

\* A call about a key.
Makes(t, e) ==
    /\ RegistryCall(t, e) /\ e \in RegistryCalls /\ e.ok = TRUE /\ e.op # "close"
    /\ e.base # Root => opened[e.base] # NoKey /\ ~Opening(e.base)
    /\ TargetOf(e) \in Keys
    /\ \/ e.op \notin {"open", "create"} /\ UNCHANGED opened
       \/ /\ e.op \in {"open", "create"} /\ e.handle \in KeyHandles /\ opened[e.handle] = NoKey
          /\ opened' = [opened EXCEPT ![e.handle] = TargetOf(e)]
    /\ UNCHANGED misread
    /\ \/ /\ ~Changes(e) /\ UNCHANGED <<registry, knowledge>>
          /\ e.op = "query" => registry[ItemOf(e)] = e.state
       \/ /\ Changes(e) /\ registry' \in [Items -> States] /\ registry'[ItemOf(e)] = e.state
          /\ \E more : /\ KnownAfter(ItemOf(e), more)
                       /\ \A j \in Items : j \notin more /\ j # ItemOf(e) => registry'[j] = registry[j]

LEMMA OpenMakes ==
    ASSUME RegistryTypes, NEW t \in RegThreads, NEW h \in KeyHandles, NEW b \in KeyHandles \cup {Root},
           NEW k \in Keys, NEW api \in {"Reg", "Nt"}, OpenKey(t, h, b, k, api)
    PROVE  \E e : Makes(t, e)
<1>2. b # Root => opened[b] # NoKey /\ ~Opening(b)
  BY DEF OpenKey, Usable
<1>3. "Created" \in States /\ Below(k, KeyOf(b))
  BY DEF States, OpenKey
<1>e. PICK r, e : /\ r = Rest(k, KeyOf(b))
                  /\ e = [op |-> "open", api |-> api, base |-> b, sub |-> r, handle |-> h,
                          state |-> "Created", ok |-> TRUE]
  OBVIOUS
<1>r. r \in KeyPaths /\ KeyOf(b) \o r = k
  BY <1>e, <1>2, <1>3, RestIs
<1>4. /\ e \in RegistryCalls /\ e.op = "open" /\ e.base = b /\ e.handle = h /\ e.state = "Created"
      /\ e.ok = TRUE /\ TargetOf(e) = k
  <2>1. e \in RegistryCalls
    BY <1>2, <1>3, <1>e, <1>r DEF RegistryCalls
  <2>2. e.op = "open" /\ e.base = b /\ e.handle = h /\ e.state = "Created" /\ e.ok = TRUE /\ e.sub = r
    BY <1>e
  <2> QED BY <1>r, <2>1, <2>2 DEF TargetOf
<1>5. RegistryCall(t, e) /\ opened[h] = NoKey /\ opened' = [opened EXCEPT ![h] = k]
      /\ UNCHANGED <<registry, misread, knowledge>>
  BY <1>e DEF OpenKey, Made
<1> QED BY <1>2, <1>4, <1>5 DEF Makes, Changes

LEMMA CreateMakes ==
    ASSUME RegistryTypes, NEW t \in RegThreads, NEW h \in KeyHandles, NEW b \in KeyHandles \cup {Root},
           NEW k \in Keys, NEW api \in {"Reg", "Nt"}, CreateKey(t, h, b, k, api)
    PROVE  \E e : Makes(t, e)
<1>2. b # Root => opened[b] # NoKey /\ ~Opening(b)
  BY DEF CreateKey, Usable
<1>3. "Created" \in States /\ Below(k, KeyOf(b))
  BY DEF States, CreateKey
<1>e. PICK r, e : /\ r = Rest(k, KeyOf(b))
                  /\ e = [op |-> "create", api |-> api, base |-> b, sub |-> r, handle |-> h,
                          state |-> "Created", ok |-> TRUE]
  OBVIOUS
<1>r. r \in KeyPaths /\ KeyOf(b) \o r = k
  BY <1>e, <1>2, <1>3, RestIs
<1>4. /\ e \in RegistryCalls /\ e.op = "create" /\ e.base = b /\ e.handle = h /\ e.state = "Created"
      /\ e.ok = TRUE /\ TargetOf(e) = k
  <2>1. e \in RegistryCalls
    BY <1>2, <1>3, <1>e, <1>r DEF RegistryCalls
  <2>2. e.op = "create" /\ e.base = b /\ e.handle = h /\ e.state = "Created" /\ e.ok = TRUE /\ e.sub = r
    BY <1>e
  <2> QED BY <1>r, <2>1, <2>2 DEF TargetOf
<1>5. PICK new : new = {j \in Keys : Below(k, j) /\ ~Exists(j)}
  OBVIOUS
<1>6. /\ RegistryCall(t, e) /\ opened[h] = NoKey /\ opened' = [opened EXCEPT ![h] = k] /\ UNCHANGED misread
      /\ registry' = [i \in Items |-> IF i[1] \in new /\ i[2] = "key" THEN "Created" ELSE registry[i]]
      /\ KnownAfter(<<k, "key">>, (new \ {k}) \X {"key"})
  BY <1>5, <1>e DEF CreateKey, Made
<1>7. ItemOf(e) = <<k, "key">> /\ Changes(e) /\ <<k, "key">> \in Items
  BY <1>4 DEF ItemOf, Part, Changes, TargetOf, Items
<1>8. registry' \in [Items -> States]
  BY <1>3, <1>6 DEF RegistryTypes
<1>9. registry'[<<k, "key">>] = "Created"
  <2>1. k \in new \/ registry[<<k, "key">>] = "Created"
    BY <1>5, BelowItself, KeysArePaths DEF Exists
  <2> QED BY <1>6, <1>7, <2>1
<1>10. \A j \in Items : j \notin (new \ {k}) \X {"key"} /\ j # <<k, "key">> => registry'[j] = registry[j]
  <2> SUFFICES ASSUME NEW j \in Items, j \notin (new \ {k}) \X {"key"}, j # <<k, "key">>
               PROVE  registry'[j] = registry[j]
    OBVIOUS
  <2>1. PICK l \in Keys, part \in {"key", "value"} : j = <<l, part>>
    BY DEF Items
  <2>2. ~(l \in new /\ part = "key")
    BY <2>1
  <2> QED BY <1>6, <2>1, <2>2
<1>m. /\ Changes(e) /\ registry' \in [Items -> States] /\ registry'[ItemOf(e)] = e.state
      /\ \E more : /\ KnownAfter(ItemOf(e), more)
                   /\ \A j \in Items : j \notin more /\ j # ItemOf(e) => registry'[j] = registry[j]
  <2>1. PICK more : more = (new \ {k}) \X {"key"}
    OBVIOUS
  <2>2. KnownAfter(ItemOf(e), more)
    BY <1>6, <1>7, <2>1
  <2>3. \A j \in Items : j \notin more /\ j # ItemOf(e) => registry'[j] = registry[j]
    BY <1>7, <1>10, <2>1
  <2>4. registry'[ItemOf(e)] = e.state
    BY <1>4, <1>7, <1>8, <1>9
  <2> QED BY <1>7, <1>8, <1>9, <2>2, <2>3, <2>4
<1>o. \/ e.op \notin {"open", "create"} /\ UNCHANGED opened
      \/ /\ e.op \in {"open", "create"} /\ e.handle \in KeyHandles /\ opened[e.handle] = NoKey
         /\ opened' = [opened EXCEPT ![e.handle] = TargetOf(e)]
  BY <1>4, <1>6
<1>b. e.base # Root => opened[e.base] # NoKey /\ ~Opening(e.base)
  BY <1>2, <1>4
<1>c. RegistryCall(t, e) /\ UNCHANGED misread /\ e.op # "close" /\ TargetOf(e) \in Keys
  BY <1>4, <1>6
<1> QED BY <1>4, <1>m, <1>o, <1>b, <1>c DEF Makes

LEMMA SetMakes ==
    ASSUME RegistryTypes, NEW t \in RegThreads, NEW h \in KeyHandles, NEW d \in KeyData \cup {"Deleted"},
           SetValue(t, h, d)
    PROVE  \E e : Makes(t, e)
<1>1. PICK k, op : k = opened[h] /\ op = IF d = "Deleted" THEN "delete value" ELSE "set"
  OBVIOUS
<1>2. k \in Keys /\ op \in {"set", "delete value"} /\ h # Root
  BY <1>1, RegistryAssumption DEF SetValue, RegistryTypes
<1>4. opened[h] # NoKey /\ ~Opening(h) /\ KeyOf(h) = k
  BY <1>1, <1>2 DEF SetValue, Usable, KeyOf
<1>5. d \in States /\ Below(k, KeyOf(h))
  BY <1>2, <1>4, BelowItself, KeysArePaths DEF States
<1>e. PICK r, e : /\ r = Rest(k, KeyOf(h))
                  /\ e = [op |-> op, api |-> "Reg", base |-> h, sub |-> r, handle |-> h,
                          state |-> d, ok |-> TRUE]
  OBVIOUS
<1>r. r \in KeyPaths /\ KeyOf(h) \o r = k
  BY <1>e, <1>2, <1>4, <1>5, RestIs
<1>6. /\ e \in RegistryCalls /\ e.op = op /\ e.base = h /\ e.handle = h /\ e.state = d
      /\ e.ok = TRUE /\ TargetOf(e) = k
  <2>1. e \in RegistryCalls
    BY <1>2, <1>4, <1>5, <1>e, <1>r DEF RegistryCalls
  <2>2. e.op = op /\ e.base = h /\ e.handle = h /\ e.state = d /\ e.ok = TRUE /\ e.sub = r
    BY <1>e
  <2> QED BY <1>r, <2>1, <2>2 DEF TargetOf
<1>7. /\ RegistryCall(t, e) /\ UNCHANGED <<opened, misread>>
      /\ registry' = [registry EXCEPT ![<<k, "value">>] = d]
      /\ KnownAfter(<<k, "value">>, {})
  BY <1>1, <1>e DEF SetValue, Made
<1>8. ItemOf(e) = <<k, "value">> /\ Changes(e) /\ <<k, "value">> \in Items
  BY <1>2, <1>6 DEF ItemOf, Part, Changes, TargetOf, Items
<1>9. /\ registry' \in [Items -> States] /\ registry'[<<k, "value">>] = d
      /\ \A j \in Items : j \notin {} /\ j # <<k, "value">> => registry'[j] = registry[j]
  BY <1>5, <1>7, <1>8 DEF RegistryTypes
<1>m. /\ Changes(e) /\ registry' \in [Items -> States] /\ registry'[ItemOf(e)] = e.state
      /\ \E more : /\ KnownAfter(ItemOf(e), more)
                   /\ \A j \in Items : j \notin more /\ j # ItemOf(e) => registry'[j] = registry[j]
  <2>1. PICK more : more = {}
    OBVIOUS
  <2>2. KnownAfter(ItemOf(e), more)
    BY <1>7, <1>8, <2>1
  <2>3. \A j \in Items : j \notin more /\ j # ItemOf(e) => registry'[j] = registry[j]
    BY <1>8, <1>9, <2>1
  <2>4. registry'[ItemOf(e)] = e.state
    BY <1>6, <1>8, <1>9
  <2> QED BY <1>8, <1>9, <2>2, <2>3, <2>4
<1>o. \/ e.op \notin {"open", "create"} /\ UNCHANGED opened
      \/ /\ e.op \in {"open", "create"} /\ e.handle \in KeyHandles /\ opened[e.handle] = NoKey
         /\ opened' = [opened EXCEPT ![e.handle] = TargetOf(e)]
  BY <1>2, <1>6, <1>7
<1>b. e.base # Root => opened[e.base] # NoKey /\ ~Opening(e.base)
  BY <1>4, <1>6
<1>c. RegistryCall(t, e) /\ UNCHANGED misread /\ e.op # "close" /\ TargetOf(e) \in Keys
  BY <1>2, <1>6, <1>7
<1> QED BY <1>6, <1>m, <1>o, <1>b, <1>c DEF Makes

LEMMA QueryMakes ==
    ASSUME RegistryTypes, NEW t \in RegThreads, NEW h \in KeyHandles, QueryValue(t, h)
    PROVE  \E e : Makes(t, e)
<1>1. PICK k : k = opened[h]
  OBVIOUS
<1>2. k \in Keys /\ h # Root
  BY <1>1, RegistryAssumption DEF QueryValue, RegistryTypes
<1>3. PICK d : d = registry[<<k, "value">>]
  OBVIOUS
<1>5. opened[h] # NoKey /\ ~Opening(h) /\ KeyOf(h) = k
  BY <1>1, <1>2 DEF QueryValue, Usable, KeyOf
<1>6. d \in States /\ Below(k, KeyOf(h))
  BY <1>2, <1>3, <1>5, BelowItself, KeysArePaths DEF RegistryTypes, Items
<1>e. PICK r, e : /\ r = Rest(k, KeyOf(h))
                  /\ e = [op |-> "query", api |-> "Reg", base |-> h, sub |-> r, handle |-> h,
                          state |-> d, ok |-> TRUE]
  OBVIOUS
<1>r. r \in KeyPaths /\ KeyOf(h) \o r = k
  BY <1>e, <1>2, <1>5, <1>6, RestIs
<1>7. /\ e \in RegistryCalls /\ e.op = "query" /\ e.base = h /\ e.handle = h /\ e.state = d
      /\ e.ok = TRUE /\ TargetOf(e) = k
  <2>1. e \in RegistryCalls
    BY <1>2, <1>5, <1>6, <1>e, <1>r DEF RegistryCalls
  <2>2. e.op = "query" /\ e.base = h /\ e.handle = h /\ e.state = d /\ e.ok = TRUE /\ e.sub = r
    BY <1>e
  <2> QED BY <1>r, <2>1, <2>2 DEF TargetOf
<1>8. RegistryCall(t, e) /\ UNCHANGED <<registry, opened, misread, knowledge>>
  BY <1>1, <1>3, <1>e DEF QueryValue, Made
<1>9. ItemOf(e) = <<k, "value">> /\ ~Changes(e)
  BY <1>2, <1>7 DEF ItemOf, Part, Changes, TargetOf
<1> QED BY <1>2, <1>3, <1>5, <1>7, <1>8, <1>9 DEF Makes

LEMMA DeleteMakes ==
    ASSUME RegistryTypes, NEW t \in RegThreads, NEW b \in KeyHandles \cup {Root}, NEW k \in Keys, DeleteKey(t, b, k)
    PROVE  \E e : Makes(t, e)
<1>2. b # Root => opened[b] # NoKey /\ ~Opening(b)
  BY DEF DeleteKey, Usable
<1>3. "Deleted" \in States /\ Below(k, KeyOf(b))
  BY DEF States, DeleteKey
<1>e. PICK r, e : /\ r = Rest(k, KeyOf(b))
                  /\ e = [op |-> "delete key", api |-> "Reg", base |-> b, sub |-> r, handle |-> b,
                          state |-> "Deleted", ok |-> TRUE]
  OBVIOUS
<1>r. r \in KeyPaths /\ KeyOf(b) \o r = k
  BY <1>e, <1>2, <1>3, RestIs
<1>4. /\ e \in RegistryCalls /\ e.op = "delete key" /\ e.base = b /\ e.handle = b /\ e.state = "Deleted"
      /\ e.ok = TRUE /\ TargetOf(e) = k
  <2>1. e \in RegistryCalls
    BY <1>2, <1>3, <1>e, <1>r DEF RegistryCalls
  <2>2. e.op = "delete key" /\ e.base = b /\ e.handle = b /\ e.state = "Deleted" /\ e.ok = TRUE /\ e.sub = r
    BY <1>e
  <2> QED BY <1>r, <2>1, <2>2 DEF TargetOf
<1>5. PICK gone : gone = {i \in Items : Below(i[1], k)}
  OBVIOUS
<1>6. /\ RegistryCall(t, e) /\ UNCHANGED <<opened, misread>>
      /\ registry' = [i \in Items |-> IF i \in gone THEN "Deleted" ELSE registry[i]]
      /\ KnownAfter(<<k, "key">>, gone \ {<<k, "key">>})
  BY <1>5, <1>e DEF DeleteKey, Made
<1>7. ItemOf(e) = <<k, "key">> /\ Changes(e) /\ <<k, "key">> \in Items
  BY <1>4 DEF ItemOf, Part, Changes, TargetOf, Items
<1>8. registry' \in [Items -> States]
  BY <1>3, <1>6 DEF RegistryTypes
<1>9. registry'[<<k, "key">>] = "Deleted"
  <2>1. <<k, "key">> \in gone
    BY <1>5, <1>7, BelowItself, KeysArePaths
  <2> QED BY <1>6, <1>7, <2>1
<1>10. \A j \in Items : j \notin gone \ {<<k, "key">>} /\ j # <<k, "key">> => registry'[j] = registry[j]
  BY <1>6
<1>m. /\ Changes(e) /\ registry' \in [Items -> States] /\ registry'[ItemOf(e)] = e.state
      /\ \E more : /\ KnownAfter(ItemOf(e), more)
                   /\ \A j \in Items : j \notin more /\ j # ItemOf(e) => registry'[j] = registry[j]
  <2>1. PICK more : more = gone \ {<<k, "key">>}
    OBVIOUS
  <2>2. KnownAfter(ItemOf(e), more)
    BY <1>6, <1>7, <2>1
  <2>3. \A j \in Items : j \notin more /\ j # ItemOf(e) => registry'[j] = registry[j]
    BY <1>7, <1>10, <2>1
  <2>4. registry'[ItemOf(e)] = e.state
    BY <1>4, <1>7, <1>8, <1>9
  <2> QED BY <1>7, <1>8, <1>9, <2>2, <2>3, <2>4
<1>o. \/ e.op \notin {"open", "create"} /\ UNCHANGED opened
      \/ /\ e.op \in {"open", "create"} /\ e.handle \in KeyHandles /\ opened[e.handle] = NoKey
         /\ opened' = [opened EXCEPT ![e.handle] = TargetOf(e)]
  BY <1>4, <1>6
<1>b. e.base # Root => opened[e.base] # NoKey /\ ~Opening(e.base)
  BY <1>2, <1>4
<1>c. RegistryCall(t, e) /\ UNCHANGED misread /\ e.op # "close" /\ TargetOf(e) \in Keys
  BY <1>4, <1>6
<1> QED BY <1>4, <1>m, <1>o, <1>b, <1>c DEF Makes

-----------------------------------------------------------------------------
(* The calls about a key.                                                  *)

\* Of two threads, only t goes on.
LEMMA CallAdds ==
    ASSUME RegistryTypes, NEW t \in RegThreads, NEW e, RegistryCall(t, e)
    PROVE  /\ report[t] = Idle /\ ~Standing(t) /\ report'[t] = e
           /\ \A u \in RegThreads : u # t => report'[u] = report[u]
           /\ UNCHANGED <<native, mapped, shown, recent>>
<1>1. Idle.ok = FALSE
  BY DEF Idle
<1>2. report[t] = Idle /\ report' = [report EXCEPT ![t] = e]
  BY DEF RegistryCall
<1>3. report'[t] = e /\ \A u \in RegThreads : u # t => report'[u] = report[u]
  BY <1>2 DEF RegistryTypes
<1> QED BY <1>1, <1>2, <1>3 DEF Standing, RegistryCall, registryView

LEMMA MakesTypes ==
    ASSUME RegistryTypes, NEW t \in RegThreads, NEW e, Makes(t, e)
    PROVE  RegistryTypes'
<1>1. report' = [report EXCEPT ![t] = e] /\ e \in RegistryCalls /\ e.op # "close" /\ UNCHANGED <<mapped, shown, misread>>
  BY DEF Makes, RegistryCall, registryView
<1>2. report' \in [RegThreads -> RegistryCalls \cup {Idle}]
  BY <1>1 DEF RegistryTypes
<1>3. \A u \in RegThreads : report'[u].op = "close" => report'[u].base \in KeyHandles
  BY <1>1 DEF RegistryTypes
<1>4. opened' \in [KeyHandles -> Keys \cup {NoKey}]
  BY DEF Makes, RegistryTypes
<1>5. registry' \in [Items -> States]
  BY DEF Makes, RegistryTypes
<1>6. knowledge' \in [Items -> {"none", "known", "in doubt"}]
  <2>1. CASE UNCHANGED knowledge
    BY <2>1 DEF RegistryTypes
  <2>2. CASE \E more : KnownAfter(ItemOf(e), more)
    BY <2>2 DEF KnownAfter, RegistryTypes
  <2> QED BY <2>1, <2>2 DEF Makes
<1> QED BY <1>1, <1>2, <1>3, <1>4, <1>5, <1>6 DEF RegistryTypes

\* A call that stands out keeps its key.
LEMMA TargetStays ==
    ASSUME NEW e, e.base # Root => opened'[e.base] = opened[e.base]
    PROVE  KeyOf(e.base)' = KeyOf(e.base) /\ TargetOf(e)' = TargetOf(e) /\ ItemOf(e)' = ItemOf(e)
<1>1. (KeyOf(e.base))' = KeyOf(e.base)
  BY DEF KeyOf
<1> QED BY <1>1 DEF TargetOf, ItemOf

LEMMA MakesMoves ==
    ASSUME RegistryTypes, Calling, NEW t \in RegThreads, NEW e, Makes(t, e)
    PROVE  /\ \A h \in KeyHandles : opened[h] # NoKey => opened'[h] = opened[h]
           /\ \A h \in KeyHandles : \/ opened'[h] = opened[h]
                                    \/ h = e.handle /\ e.op \in {"open", "create"} /\ opened'[h] = TargetOf(e)
           /\ e.op \in {"open", "create"} => e.handle \in KeyHandles /\ opened[e.handle] = NoKey
                                             /\ opened'[e.handle] = TargetOf(e)
BY DEF Makes, RegistryTypes

LEMMA MakesOpenings ==
    ASSUME RegistryTypes, Calling, NEW t \in RegThreads, NEW e, Makes(t, e)
    PROVE  /\ \A h \in KeyHandles : Opening(h) => Opening(h)'
           /\ \A h \in KeyHandles : opened[h] # NoKey /\ ~Opening(h) => ~Opening(h)'
           /\ e.op \in {"open", "create"} => Opening(e.handle)'
<1>1. RegistryCall(t, e) /\ e.ok = TRUE
  BY DEF Makes
<1>2. /\ report[t] = Idle /\ ~Standing(t) /\ report'[t] = e
      /\ \A u \in RegThreads : u # t => report'[u] = report[u]
  BY <1>1, CallAdds
<1>3. ASSUME NEW h \in KeyHandles, Opening(h) PROVE Opening(h)'
  <2>1. PICK u \in RegThreads : report[u].ok /\ report[u].op \in {"open", "create"} /\ report[u].handle = h
    BY <1>3 DEF Opening
  <2>2. u # t
    BY <1>2, <2>1 DEF Standing
  <2> QED BY <1>2, <2>1, <2>2 DEF Opening
<1>4. ASSUME NEW h \in KeyHandles, opened[h] # NoKey, ~Opening(h), Opening(h)' PROVE FALSE
  <2>1. PICK u \in RegThreads : report'[u].ok /\ report'[u].op \in {"open", "create"} /\ report'[u].handle = h
    BY <1>4 DEF Opening
  <2>2. CASE u = t
    BY <1>2, <1>4, <2>1, <2>2, MakesMoves
  <2>3. CASE u # t
    BY <1>2, <1>4, <2>1, <2>3 DEF Opening
  <2> QED BY <2>2, <2>3
<1>5. e.op \in {"open", "create"} => Opening(e.handle)'
  BY <1>1, <1>2 DEF Opening
<1> QED BY <1>3, <1>4, <1>5

\* What a standing call is about, before and after another one.
LEMMA MakesKeepsTargets ==
    ASSUME RegistryTypes, Calling, NEW t \in RegThreads, NEW e, Makes(t, e)
    PROVE  /\ KeyOf(e.base)' = KeyOf(e.base) /\ TargetOf(e)' = TargetOf(e) /\ ItemOf(e)' = ItemOf(e)
           /\ \A u \in RegThreads : Standing(u) =>
                LET f == report[u] IN
                u # t /\ report'[u] = f /\ TargetOf(f)' = TargetOf(f) /\ ItemOf(f)' = ItemOf(f)
<1>1. RegistryCall(t, e) /\ e.base \in KeyHandles \cup {Root} /\ (e.base # Root => opened[e.base] # NoKey)
  BY DEF Makes, RegistryCalls
<1>2. e.base # Root => opened'[e.base] = opened[e.base]
  BY <1>1, MakesMoves
<1>3. ASSUME NEW u \in RegThreads, Standing(u), NEW f, f = report[u]
      PROVE  u # t /\ report'[u] = f /\ TargetOf(f)' = TargetOf(f) /\ ItemOf(f)' = ItemOf(f)
  <2>1. u # t /\ report'[u] = f
    BY <1>1, <1>3, CallAdds
  <2>2. f \in RegistryCalls
    BY <1>3, StandingIsCall
  <2>3. f.base # Root => f.base \in KeyHandles /\ opened[f.base] # NoKey
    BY <1>3, <2>2 DEF Calling, RegistryCalls
  <2>4. f.base # Root => opened'[f.base] = opened[f.base]
    BY <2>3, MakesMoves
  <2> QED BY <2>1, <2>4, TargetStays
<1> QED BY <1>2, <1>3, TargetStays, Zenon

LEMMA MakesChanging ==
    ASSUME RegistryTypes, Calling, NEW t \in RegThreads, NEW e, Makes(t, e), NEW i
    PROVE  /\ Changing(i) => Changing(i)'
           /\ Changes(e) /\ i = ItemOf(e) => Changing(i)'
<1>1. RegistryCall(t, e) /\ e.ok = TRUE /\ ItemOf(e)' = ItemOf(e)
  BY MakesKeepsTargets DEF Makes
<1>2. report'[t] = e
  BY <1>1, CallAdds
<1>3. ASSUME Changing(i) PROVE Changing(i)'
  <2>1. PICK u \in RegThreads : report[u].ok /\ Changes(report[u]) /\ ItemOf(report[u]) = i
    BY <1>3 DEF Changing
  <2>2. PICK f : f = report[u]
    OBVIOUS
  <2>3. Standing(u)
    BY <2>1 DEF Standing, Changes
  <2>4. report'[u] = f /\ ItemOf(f)' = ItemOf(f)
    BY <2>2, <2>3, MakesKeepsTargets
  <2>5. f.ok /\ Changes(f) /\ ItemOf(f)' = i
    BY <2>1, <2>2, <2>4
  <2>6. \E v \in RegThreads : report'[v].ok /\ Changes(report'[v]) /\ ItemOf(report[v])' = i
    BY <2>4, <2>5, Zenon
  <2> QED BY <2>6, Zenon DEF Changing, Changes
<1>4. ASSUME Changes(e), i = ItemOf(e) PROVE Changing(i)'
  <2>1. \E v \in RegThreads : report'[v].ok /\ Changes(report'[v]) /\ ItemOf(report[v])' = i
    BY <1>1, <1>2, <1>4, Zenon
  <2> QED BY <2>1, Zenon DEF Changing, Changes
<1> QED BY <1>3, <1>4

\* What a call leaves of what is known.
LEMMA MakesKnown ==
    ASSUME RegistryTypes, NEW t \in RegThreads, NEW e, Makes(t, e), NEW i \in Items
    PROVE  \/ knowledge'[i] = "in doubt" 
           \/ Changes(e) /\ i = ItemOf(e) /\ ~Changing(i)
           \/ knowledge'[i] = knowledge[i] /\ registry'[i] = registry[i]
<1>1. CASE UNCHANGED <<registry, knowledge>>
  BY <1>1
<1>2. CASE Changes(e) /\ ~UNCHANGED <<registry, knowledge>>
  <2>1. PICK more : /\ KnownAfter(ItemOf(e), more)
                    /\ \A j \in Items : j \notin more /\ j # ItemOf(e) => registry'[j] = registry[j]
    BY <1>2 DEF Makes
  <2>2. PICK a : a = ItemOf(e)
    OBVIOUS
  <2>3. knowledge'[i] = IF i \in more \/ (i = a /\ Changing(a)) THEN "in doubt"
                        ELSE IF i = a THEN "known" ELSE knowledge[i]
    BY <2>1, <2>2 DEF KnownAfter
  <2>4. CASE i \in more \/ (i = a /\ Changing(a))
    BY <2>3, <2>4
  <2>5. CASE i \notin more /\ i = a /\ ~Changing(a)
    BY <1>2, <2>2, <2>5
  <2>6. CASE i \notin more /\ i # a
    BY <2>1, <2>2, <2>3, <2>6
  <2> QED BY <2>4, <2>5, <2>6
<1> QED BY <1>1, <1>2 DEF Makes

LEMMA ItemOfType ==
    ASSUME NEW e, TargetOf(e) \in Keys
    PROVE  ItemOf(e) \in Items
BY DEF ItemOf, TargetOf, Part, Items

LEMMA MakesKeeps ==
    ASSUME RegistryInv, NEW t \in RegThreads, NEW e, Makes(t, e)
    PROVE  RegistryInv'
<1> USE DEF RegistryInv
<1>1. RegistryCall(t, e) /\ e \in RegistryCalls /\ e.ok = TRUE /\ UNCHANGED misread /\ TargetOf(e) \in Keys
  BY DEF Makes
<1>2. /\ report[t] = Idle /\ ~Standing(t) /\ report'[t] = e
      /\ \A u \in RegThreads : u # t => report'[u] = report[u]
      /\ UNCHANGED <<mapped, shown>>
  BY <1>1, CallAdds
<1>3. KeyOf(e.base)' = KeyOf(e.base) /\ TargetOf(e)' = TargetOf(e) /\ ItemOf(e)' = ItemOf(e)
  BY MakesKeepsTargets
<1>4. RegistryTypes'
  BY MakesTypes
<1>5. ASSUME NEW u \in RegThreads, Standing(u)', u # t
      PROVE  Standing(u) /\ TargetOf(report[u])' = TargetOf(report[u]) /\ ItemOf(report[u])' = ItemOf(report[u])
             /\ report'[u] = report[u]
  <2>1. Standing(u) /\ report'[u] = report[u]
    BY <1>2, <1>5 DEF Standing
  <2>2. PICK f : f = report[u]
    OBVIOUS
  <2>3. TargetOf(f)' = TargetOf(f) /\ ItemOf(f)' = ItemOf(f) /\ report'[u] = f
    BY <2>1, <2>2, MakesKeepsTargets
  <2>4. TargetOf(report[u])' = TargetOf(f) /\ ItemOf(report[u])' = ItemOf(f)
    BY <2>3, Zenon
  <2> QED BY <2>1, <2>2, <2>4, Zenon
<1>6. Calling'
  <2> SUFFICES ASSUME NEW u \in RegThreads, Standing(u)', NEW f, f = report'[u]
               PROVE  /\ f.base # Root => opened'[f.base] # NoKey /\ ~Opening(f.base)'
                      /\ TargetOf(f)' \in Keys
                      /\ f.op \in {"open", "create"} => f.handle \in KeyHandles /\ opened'[f.handle] = TargetOf(f)'
    <3>1. ASSUME NEW u \in RegThreads, Standing(u)'
          PROVE  (/\ report[u].base # Root => opened[report[u].base] # NoKey /\ ~Opening(report[u].base)
                  /\ TargetOf(report[u]) \in Keys
                  /\ report[u].op \in {"open", "create"}
                     => report[u].handle \in KeyHandles /\ opened[report[u].handle] = TargetOf(report[u]))'
      <4>1. PICK f : f = report'[u]
        OBVIOUS
      <4>2. /\ f.base # Root => opened'[f.base] # NoKey /\ ~Opening(f.base)'
            /\ TargetOf(f)' \in Keys
            /\ f.op \in {"open", "create"} => f.handle \in KeyHandles /\ opened'[f.handle] = TargetOf(f)'
        BY <3>1, <4>1
      <4> QED BY <4>1, <4>2, Zenon
    <3> QED BY <3>1 DEF Calling
  <2>1. CASE u = t
    <3>1. f = e
      BY <1>2, <2>1
    <3>2. e.base # Root => opened[e.base] # NoKey /\ ~Opening(e.base) /\ e.base \in KeyHandles
      BY <1>1 DEF Makes, RegistryCalls
    <3>3. e.base # Root => opened'[e.base] # NoKey /\ ~Opening(e.base)'
      BY <3>2, MakesMoves, MakesOpenings
    <3>4. e.op \in {"open", "create"} => e.handle \in KeyHandles /\ opened'[e.handle] = TargetOf(e)'
      BY <1>3, MakesMoves
    <3> QED BY <1>1, <1>3, <3>1, <3>3, <3>4
  <2>2. CASE u # t
    <3>1. Standing(u) /\ f = report[u]
      BY <1>5, <2>2
    <3>2. TargetOf(f)' = TargetOf(f) /\ f \in RegistryCalls
      BY <3>1, MakesKeepsTargets, StandingIsCall
    <3>3. /\ f.base # Root => opened[f.base] # NoKey /\ ~Opening(f.base) /\ f.base \in KeyHandles
          /\ TargetOf(f) \in Keys
          /\ f.op \in {"open", "create"} => f.handle \in KeyHandles /\ opened[f.handle] = TargetOf(f)
      BY <3>1, <3>2 DEF Calling, RegistryCalls
    <3>4. f.base # Root => opened'[f.base] # NoKey /\ ~Opening(f.base)'
      BY <3>3, MakesMoves, MakesOpenings
    <3>5. f.op \in {"open", "create"} => f.handle \in KeyHandles /\ opened'[f.handle] = TargetOf(f)'
      BY <3>2, <3>3, KeysArePaths, MakesMoves
    <3> QED BY <3>2, <3>3, <3>4, <3>5
  <2> QED BY <2>1, <2>2
<1>7. Following'
  <2> SUFFICES ASSUME NEW h \in KeyHandles, opened'[h] # NoKey, h \notin misread, ~Opening(h)'
               PROVE  mapped[h] = opened'[h]
    BY <1>1, <1>2 DEF Following
  <2>1. ~Opening(h)
    BY MakesOpenings
  <2>2. opened'[h] = opened[h]
    BY MakesMoves, MakesOpenings
  <2> QED BY <2>1, <2>2 DEF Following
<1>8. Reporting'
  <2>1. ASSUME NEW u \in RegThreads, Standing(u)', NEW f, f = report'[u], NEW i, i = ItemOf(f)'
        PROVE  /\ Changes(f) => knowledge'[i] = "in doubt" \/ registry'[i] = f.state
               /\ f.op = "query" => \/ knowledge'[i] = "in doubt" \/ Changing(i)'
                                    \/ shown'[i] # {} \/ registry'[i] = f.state
    <3>1. CASE u = t
      <4>1. f = e /\ i = ItemOf(e)
        BY <1>2, <1>3, <2>1, <3>1, Zenon
      <4>2. Changes(e) => registry'[ItemOf(e)] = e.state
        BY DEF Makes
      <4>3. e.op = "query" => registry'[ItemOf(e)] = e.state
        BY DEF Makes, Changes
      <4> QED BY <4>1, <4>2, <4>3
    <3>2. CASE u # t
      <4>1. Standing(u) /\ f = report[u]
        BY <1>5, <2>1, <3>2
      <4>2. i = ItemOf(f) /\ TargetOf(f) \in Keys
        BY <2>1, <4>1, MakesKeepsTargets DEF Calling
      <4>3. i \in Items
        BY <4>2, ItemOfType
      <4>4. Says(f)
        BY <4>1 DEF Reporting
      <4>5. f.ok
        BY <4>1 DEF Standing
      <4>6. Changes(f) => Changing(i)
        BY <4>1, <4>2, <4>5 DEF Changing
      <4>7. Changing(i) => Changing(i)'
        BY MakesChanging
      <4>8. Changes(e) /\ i = ItemOf(e) => Changing(i)'
        BY MakesChanging
      <4>9. \/ knowledge'[i] = "in doubt" 
            \/ Changes(e) /\ i = ItemOf(e) /\ ~Changing(i)
            \/ knowledge'[i] = knowledge[i] /\ registry'[i] = registry[i]
        BY <4>3, MakesKnown
      <4>10. Changes(f) => knowledge[i] = "in doubt" \/ registry[i] = f.state
        BY <4>2, <4>4 DEF Says
      <4>11. f.op = "query" => \/ knowledge[i] = "in doubt" \/ Changing(i)
                               \/ shown[i] # {} \/ registry[i] = f.state
        BY <4>2, <4>4 DEF Says
      <4>12. shown' = shown
        BY <1>2
      <4> HIDE DEF Changes, Changing
      <4> QED BY <4>6, <4>7, <4>8, <4>9, <4>10, <4>11, <4>12
    <3> QED BY <3>1, <3>2
  <2>2. ASSUME NEW u \in RegThreads, Standing(u)' PROVE Says(report[u])'
    <3>1. PICK f, i : f = report'[u] /\ i = ItemOf(f)'
      OBVIOUS
    <3>2. /\ Changes(f) => knowledge'[i] = "in doubt" \/ registry'[i] = f.state
          /\ f.op = "query" => \/ knowledge'[i] = "in doubt" \/ Changing(i)'
                               \/ shown'[i] # {} \/ registry'[i] = f.state
      BY <2>1, <2>2, <3>1
    <3>3. Says(f)'
      BY <3>1, <3>2, Zenon DEF Says, Changes
    <3> QED BY <3>1, <3>3, Zenon
  <2> QED BY <2>2 DEF Reporting
<1>9. FinalStateTrue'
  <2> SUFFICES ASSUME NEW i \in Items
               PROVE  \/ knowledge'[i] = "in doubt" \/ Changing(i)' \/ registry'[i] \in shown'[i]
                      \/ knowledge'[i] = "none" /\ shown'[i] = {}
    BY Zenon DEF FinalStateTrue
  <2>1. Changing(i) => Changing(i)'
    BY MakesChanging
  <2>2. Changes(e) /\ i = ItemOf(e) => Changing(i)'
    BY MakesChanging
  <2>3. \/ knowledge'[i] = "in doubt" 
        \/ Changes(e) /\ i = ItemOf(e) /\ ~Changing(i)
        \/ knowledge'[i] = knowledge[i] /\ registry'[i] = registry[i]
    BY MakesKnown
  <2>4. \/ knowledge[i] = "in doubt" \/ Changing(i) \/ registry[i] \in shown[i]
        \/ knowledge[i] = "none" /\ shown[i] = {}
    BY DEF FinalStateTrue
  <2> QED BY <1>2, <2>1, <2>2, <2>3, <2>4
<1> QED BY <1>4, <1>6, <1>7, <1>8, <1>9

-----------------------------------------------------------------------------
(* The other steps, and the reports.                                       *)

\* A step that no call about a key is part of: a handle that it opens is misread.
Elsewhere ==
    /\ RegistryTypes'
    /\ UNCHANGED <<registry, shown, knowledge>>
    /\ \A u \in RegThreads : Standing(u)' = Standing(u) /\ (Standing(u) => report'[u] = report[u])
    /\ \A h \in KeyHandles :
          /\ opened[h] # NoKey => \/ opened'[h] = opened[h]
                                  \/ ~Opening(h) /\ \A u \in RegThreads : Standing(u) => report[u].base # h
          /\ opened'[h] # NoKey /\ h \notin misread'
             => opened[h] = opened'[h] /\ h \notin misread /\ mapped'[h] = mapped[h]

LEMMA ElsewhereOpening ==
    ASSUME Elsewhere, NEW h
    PROVE  Opening(h)' <=> Opening(h)
<1>1. ASSUME NEW u \in RegThreads, report[u].ok, report[u].op \in {"open", "create"}, report[u].handle = h
      PROVE  Opening(h)'
  <2>1. Standing(u)
    BY <1>1 DEF Standing
  <2>2. report'[u] = report[u]
    BY <2>1 DEF Elsewhere
  <2> QED BY <1>1, <2>2 DEF Opening
<1>2. ASSUME NEW u \in RegThreads, report'[u].ok, report'[u].op \in {"open", "create"}, report'[u].handle = h
      PROVE  Opening(h)
  <2>1. Standing(u)'
    BY <1>2 DEF Standing
  <2>2. report'[u] = report[u]
    BY <2>1 DEF Elsewhere
  <2> QED BY <1>2, <2>2 DEF Opening
<1> QED BY <1>1, <1>2 DEF Opening

\* The calls that stand out are about the same items.
LEMMA ElsewhereTargets ==
    ASSUME RegistryTypes, Calling, Elsewhere, NEW u \in RegThreads, Standing(u), NEW f, f = report[u]
    PROVE  /\ f.base # Root => opened'[f.base] = opened[f.base] /\ opened[f.base] # NoKey /\ f.base \in KeyHandles
           /\ TargetOf(f)' = TargetOf(f) /\ ItemOf(f)' = ItemOf(f) /\ ItemOf(f) \in Items
           /\ TargetOf(f) \in Keys
<1>1. f \in RegistryCalls
  BY StandingIsCall
<1>2. f.base # Root => f.base \in KeyHandles /\ opened[f.base] # NoKey
  BY <1>1 DEF Calling, RegistryCalls
<1>3. f.base # Root => opened'[f.base] = opened[f.base]
  BY <1>2 DEF Elsewhere
<1>4. TargetOf(f) \in Keys
  BY DEF Calling
<1> QED BY <1>2, <1>3, <1>4, TargetStays, ItemOfType

LEMMA ElsewhereChanging ==
    ASSUME RegistryTypes, Calling, Elsewhere, NEW i, Changing(i)
    PROVE  Changing(i)'
<1>1. PICK u \in RegThreads : report[u].ok /\ Changes(report[u]) /\ ItemOf(report[u]) = i
  BY DEF Changing
<1>2. PICK f : f = report[u]
  OBVIOUS
<1>3. Standing(u)
  BY <1>1 DEF Standing, Changes
<1>4. report'[u] = f /\ ItemOf(f)' = ItemOf(f)
  BY <1>2, <1>3, ElsewhereTargets DEF Elsewhere
<1>5. f.ok /\ Changes(f) /\ ItemOf(f)' = i
  BY <1>1, <1>2, <1>4
<1>6. \E v \in RegThreads : report'[v].ok /\ Changes(report'[v]) /\ ItemOf(report[v])' = i
  BY <1>4, <1>5, Zenon
<1> QED BY <1>6, Zenon DEF Changing, Changes

LEMMA ElsewhereKeeps == ASSUME RegistryInv, Elsewhere PROVE RegistryInv'
<1> USE DEF RegistryInv
<1>1. RegistryTypes' /\ UNCHANGED <<registry, shown, knowledge>>
  BY DEF Elsewhere
<1>2. ASSUME NEW u \in RegThreads, Standing(u)'
      PROVE  Standing(u) /\ report'[u] = report[u]
  BY <1>2 DEF Elsewhere
<1>3. Calling'
  <2>1. ASSUME NEW u \in RegThreads, Standing(u)', NEW f, f = report'[u]
        PROVE  /\ f.base # Root => opened'[f.base] # NoKey /\ ~Opening(f.base)'
               /\ TargetOf(f)' \in Keys
               /\ f.op \in {"open", "create"} => f.handle \in KeyHandles /\ opened'[f.handle] = TargetOf(f)'
    <3>1. Standing(u) /\ f = report[u]
      BY <1>2, <2>1
    <3>2. /\ f.base # Root => opened'[f.base] = opened[f.base] /\ opened[f.base] # NoKey
          /\ TargetOf(f)' = TargetOf(f) /\ TargetOf(f) \in Keys
      BY <3>1, ElsewhereTargets
    <3>3. /\ f.base # Root => ~Opening(f.base)
          /\ f.op \in {"open", "create"} => f.handle \in KeyHandles /\ opened[f.handle] = TargetOf(f)
      BY <3>1 DEF Calling
    <3>4. f.base # Root => ~Opening(f.base)'
      BY <3>3, ElsewhereOpening
    <3>5. ASSUME f.op \in {"open", "create"} PROVE opened'[f.handle] = TargetOf(f)'
      <4>1. f.handle \in KeyHandles /\ opened[f.handle] = TargetOf(f) /\ opened[f.handle] # NoKey
        BY <3>2, <3>3, <3>5, KeysArePaths
      <4>2. Opening(f.handle)
        BY <3>1, <3>5 DEF Opening, Standing
      <4>3. opened'[f.handle] = opened[f.handle]
        BY <4>1, <4>2 DEF Elsewhere
      <4> QED BY <3>2, <4>1, <4>3
    <3> QED BY <3>2, <3>3, <3>4, <3>5
  <2>2. ASSUME NEW u \in RegThreads, Standing(u)'
        PROVE  (/\ report[u].base # Root => opened[report[u].base] # NoKey /\ ~Opening(report[u].base)
                /\ TargetOf(report[u]) \in Keys
                /\ report[u].op \in {"open", "create"}
                   => report[u].handle \in KeyHandles /\ opened[report[u].handle] = TargetOf(report[u]))'
    <3>1. PICK f : f = report'[u]
      OBVIOUS
    <3>2. /\ f.base # Root => opened'[f.base] # NoKey /\ ~Opening(f.base)'
          /\ TargetOf(f)' \in Keys
          /\ f.op \in {"open", "create"} => f.handle \in KeyHandles /\ opened'[f.handle] = TargetOf(f)'
      BY <2>1, <2>2, <3>1
    <3> QED BY <3>1, <3>2, Zenon
  <2> QED BY <2>2 DEF Calling
<1>4. Following'
  <2> SUFFICES ASSUME NEW h \in KeyHandles, opened'[h] # NoKey, h \notin misread', ~Opening(h)'
               PROVE  mapped'[h] = opened'[h]
    BY DEF Following
  <2>1. opened[h] = opened'[h] /\ h \notin misread /\ mapped'[h] = mapped[h]
    BY DEF Elsewhere
  <2>2. ~Opening(h)
    BY ElsewhereOpening
  <2> QED BY <2>1, <2>2 DEF Following
<1>5. Reporting'
  <2>1. ASSUME NEW u \in RegThreads, Standing(u)', NEW f, f = report'[u], NEW i, i = ItemOf(f)'
        PROVE  /\ Changes(f) => knowledge'[i] = "in doubt" \/ registry'[i] = f.state
               /\ f.op = "query" => \/ knowledge'[i] = "in doubt" \/ Changing(i)'
                                    \/ shown'[i] # {} \/ registry'[i] = f.state
    <3>1. Standing(u) /\ f = report[u]
      BY <1>2, <2>1
    <3>2. i = ItemOf(f)
      BY <2>1, <3>1, ElsewhereTargets
    <3>3. Says(f)
      BY <3>1 DEF Reporting
    <3>4. Changing(i) => Changing(i)'
      BY ElsewhereChanging
    <3>5. /\ Changes(f) => knowledge[i] = "in doubt" \/ registry[i] = f.state
          /\ f.op = "query" => \/ knowledge[i] = "in doubt" \/ Changing(i)
                               \/ shown[i] # {} \/ registry[i] = f.state
      BY <3>2, <3>3 DEF Says
    <3> QED BY <1>1, <3>4, <3>5
  <2>2. ASSUME NEW u \in RegThreads, Standing(u)' PROVE Says(report[u])'
    <3>1. PICK f, i : f = report'[u] /\ i = ItemOf(f)'
      OBVIOUS
    <3>2. /\ Changes(f) => knowledge'[i] = "in doubt" \/ registry'[i] = f.state
          /\ f.op = "query" => \/ knowledge'[i] = "in doubt" \/ Changing(i)'
                               \/ shown'[i] # {} \/ registry'[i] = f.state
      BY <2>1, <2>2, <3>1
    <3>3. Says(f)'
      BY <3>1, <3>2, Zenon DEF Says, Changes
    <3> QED BY <3>1, <3>3, Zenon
  <2> QED BY <2>2 DEF Reporting
<1>6. FinalStateTrue'
  <2> SUFFICES ASSUME NEW i \in Items
               PROVE  \/ knowledge'[i] = "in doubt" \/ Changing(i)' \/ registry'[i] \in shown'[i]
                      \/ knowledge'[i] = "none" /\ shown'[i] = {}
    BY Zenon DEF FinalStateTrue
  <2>1. Changing(i) => Changing(i)'
    BY ElsewhereChanging
  <2>2. \/ knowledge[i] = "in doubt" \/ Changing(i) \/ registry[i] \in shown[i]
        \/ knowledge[i] = "none" /\ shown[i] = {}
    BY DEF FinalStateTrue
  <2> QED BY <1>1, <2>1, <2>2
<1> QED BY <1>1, <1>3, <1>4, <1>5, <1>6

\* The steps that are elsewhere.
LEMMA CloseIsElsewhere ==
    ASSUME RegistryInv, NEW t \in RegThreads, NEW h \in KeyHandles, NEW api \in {"Reg", "Nt"}, CloseKey(t, h, api)
    PROVE  Elsewhere
<1> USE DEF RegistryInv
<1>1. PICK k : k = opened[h]
  OBVIOUS
<1>2. k \in Keys /\ h # Root /\ KeyOf(h) = k
  BY <1>1, RegistryAssumption DEF CloseKey, RegistryTypes, KeyOf
<1>3. PICK r, e : /\ r = Rest(k, KeyOf(h))
                  /\ e = [op |-> "close", api |-> api, base |-> h, sub |-> r, handle |-> h,
                          state |-> "Closed", ok |-> TRUE]
  OBVIOUS
<1>4. r \in KeyPaths
  BY <1>2, <1>3, BelowItself, Rejoined, KeysArePaths
<1>5. e \in RegistryCalls /\ e.op = "close" /\ e.base = h
  BY <1>3, <1>4 DEF RegistryCalls, States
<1>6. RegistryCall(t, e) /\ opened' = [opened EXCEPT ![h] = NoKey] /\ misread' = misread \ {h}
      /\ UNCHANGED <<registry, knowledge>> /\ ~Opening(h)
      /\ \A u \in RegThreads : report[u] # Idle => h # report[u].base
  <2>1. h # Root => ~Opening(h)
    BY DEF CloseKey, Usable
  <2> QED BY <1>1, <1>2, <1>3, <2>1 DEF CloseKey, Made
<1>7. /\ report[t] = Idle /\ ~Standing(t) /\ report'[t] = e
      /\ \A u \in RegThreads : u # t => report'[u] = report[u]
      /\ UNCHANGED <<mapped, shown>>
  BY <1>6, CallAdds
<1>8. RegistryTypes'
  <2>1. report' = [report EXCEPT ![t] = e]
    BY <1>6 DEF RegistryCall
  <2>2. /\ report' \in [RegThreads -> RegistryCalls \cup {Idle}]
        /\ \A u \in RegThreads : report'[u].op = "close" => report'[u].base \in KeyHandles
    BY <1>5, <2>1 DEF RegistryTypes
  <2>3. opened' \in [KeyHandles -> Keys \cup {NoKey}]
    BY <1>6 DEF RegistryTypes
  <2> QED BY <1>6, <1>7, <2>2, <2>3 DEF RegistryTypes
<1>9. ASSUME NEW u \in RegThreads
      PROVE  Standing(u)' = Standing(u) /\ (Standing(u) => report'[u] = report[u] /\ report[u].base # h)
  <2>1. CASE u = t
    BY <1>5, <1>7, <2>1 DEF Standing
  <2>2. CASE u # t
    BY <1>6, <1>7, <2>2, StandingIsCall DEF Standing
  <2> QED BY <2>1, <2>2
<1>10. ASSUME NEW g \in KeyHandles, g # h
       PROVE  opened'[g] = opened[g] /\ (g \in misread' <=> g \in misread)
  BY <1>6, <1>10 DEF RegistryTypes
<1>11. opened'[h] = NoKey
  BY <1>6 DEF RegistryTypes
<1> QED BY <1>6, <1>7, <1>8, <1>9, <1>10, <1>11 DEF Elsewhere

LEMMA CloseUnseenIsElsewhere ==
    ASSUME RegistryInv, NEW h \in KeyHandles, CloseKeyUnseen(h)
    PROVE  Elsewhere
<1> USE DEF RegistryInv
<1>1. /\ opened' = [opened EXCEPT ![h] = NoKey] /\ misread' = misread \ {h}
      /\ UNCHANGED <<registry, knowledge, report, mapped, shown>> /\ ~Opening(h)
      /\ \A u \in RegThreads : report[u] # Idle => h # report[u].base
  BY RegistryAssumption DEF CloseKeyUnseen, Usable, registryView
<1>2. RegistryTypes'
  BY <1>1 DEF RegistryTypes
<1>3. ASSUME NEW u \in RegThreads
      PROVE  Standing(u)' = Standing(u) /\ (Standing(u) => report'[u] = report[u] /\ report[u].base # h)
  BY <1>1, StandingIsCall DEF Standing
<1>4. ASSUME NEW g \in KeyHandles, g # h
      PROVE  opened'[g] = opened[g] /\ (g \in misread' <=> g \in misread)
  BY <1>1, <1>4 DEF RegistryTypes
<1>5. opened'[h] = NoKey
  BY <1>1 DEF RegistryTypes
<1> QED BY <1>1, <1>2, <1>3, <1>4, <1>5 DEF Elsewhere

LEMMA OpenUnseenIsElsewhere ==
    ASSUME RegistryInv, NEW h \in KeyHandles, NEW k \in Keys, OpenKeyUnseen(h, k)
    PROVE  Elsewhere
<1> USE DEF RegistryInv
<1>1. /\ opened' = [opened EXCEPT ![h] = k] /\ misread' = misread \cup {h} /\ opened[h] = NoKey
      /\ UNCHANGED <<registry, knowledge, report, mapped, shown>>
  BY DEF OpenKeyUnseen, registryView
<1>2. RegistryTypes'
  BY <1>1 DEF RegistryTypes
<1>3. ASSUME NEW u \in RegThreads
      PROVE  Standing(u)' = Standing(u) /\ report'[u] = report[u]
  BY <1>1 DEF Standing
<1>4. ASSUME NEW g \in KeyHandles, g # h
      PROVE  opened'[g] = opened[g] /\ (g \in misread' <=> g \in misread)
  BY <1>1, <1>4 DEF RegistryTypes
<1> QED BY <1>1, <1>2, <1>3, <1>4 DEF Elsewhere

LEMMA FailingIsElsewhere ==
    ASSUME RegistryInv, NEW t \in RegThreads, NEW h \in KeyHandles, NEW op \in {"close", "set"},
           RegistryCallFails(t, h, op)
    PROVE  Elsewhere
<1> USE DEF RegistryInv
<1>1. PICK e : e = [op |-> op, api |-> "Reg", base |-> h, sub |-> <<>>, handle |-> h,
                    state |-> "Failed", ok |-> FALSE]
  OBVIOUS
<1>2. <<>> \in KeyPaths
  BY DEF KeyPaths
<1>3. e \in RegistryCalls /\ e.ok = FALSE /\ e.base = h
  BY <1>1, <1>2 DEF RegistryCalls, States
<1>4. RegistryCall(t, e) /\ UNCHANGED <<registry, opened, misread, knowledge>>
  BY <1>1 DEF RegistryCallFails
<1>5. /\ report[t] = Idle /\ ~Standing(t) /\ report'[t] = e
      /\ \A u \in RegThreads : u # t => report'[u] = report[u]
      /\ UNCHANGED <<mapped, shown>>
  BY <1>4, CallAdds
<1>6. RegistryTypes'
  <2>1. report' = [report EXCEPT ![t] = e]
    BY <1>4 DEF RegistryCall
  <2>2. /\ report' \in [RegThreads -> RegistryCalls \cup {Idle}]
        /\ \A u \in RegThreads : report'[u].op = "close" => report'[u].base \in KeyHandles
    BY <1>3, <2>1 DEF RegistryTypes
  <2> QED BY <1>4, <1>5, <2>2 DEF RegistryTypes
<1>7. ASSUME NEW u \in RegThreads
      PROVE  Standing(u)' = Standing(u) /\ (Standing(u) => report'[u] = report[u])
  <2>1. CASE u = t
    BY <1>3, <1>5, <2>1 DEF Standing
  <2>2. CASE u # t
    BY <1>5, <2>2 DEF Standing
  <2> QED BY <2>1, <2>2
<1> QED BY <1>4, <1>5, <1>6, <1>7 DEF Elsewhere

LEMMA RestIsElsewhere ==
    ASSUME RegistryInv, UNCHANGED <<registry, opened, report, mapped, shown, misread, knowledge>>
    PROVE  Elsewhere
<1>1. RegistryTypes'
  BY DEF RegistryInv, RegistryTypes
<1> QED BY <1>1 DEF Elsewhere, Standing

\* What the view makes of the path of a call that stands out.
LEMMA ResolveIs ==
    ASSUME RegistryTypes, Calling, Following, NEW t \in RegThreads, Standing(t), NEW e, e = report[t]
    PROVE  /\ Resolve(e) \in KeyPaths
           /\ e.base \notin misread => Resolve(e) = TargetOf(e) /\ SeenItem(e) = ItemOf(e)
<1>1. e \in RegistryCalls
  BY StandingIsCall
<1>2. e.base \in KeyHandles \cup {Root} /\ e.sub \in KeyPaths /\ Root \notin KeyHandles
  BY <1>1, RegistryAssumption DEF RegistryCalls
<1>3. PICK p : p = IF e.base \in KeyHandles /\ mapped[e.base] # NoKey THEN mapped[e.base] ELSE <<e.base>>
  OBVIOUS
<1>4. p \in KeyPaths
  <2>1. <<e.base>> \in KeyPaths
    BY <1>2 DEF KeyPaths, Names
  <2>2. e.base \in KeyHandles => mapped[e.base] \in KeyPaths
    BY DEF RegistryTypes
  <2> QED BY <1>3, <2>1, <2>2
<1>5. Resolve(e) = p \o e.sub
  BY <1>3 DEF Resolve
<1>6. p \o e.sub \in KeyPaths
  BY <1>2, <1>4 DEF KeyPaths
<1>7. ASSUME e.base \notin misread PROVE p = KeyOf(e.base)
  <2>1. CASE e.base = Root
    BY <1>2, <1>3, <2>1 DEF KeyOf
  <2>2. CASE e.base # Root
    <3>1. e.base \in KeyHandles /\ opened[e.base] # NoKey /\ ~Opening(e.base)
      BY <1>2, <2>2 DEF Calling
    <3>2. mapped[e.base] = opened[e.base]
      BY <1>7, <3>1 DEF Following
    <3> QED BY <1>3, <2>2, <3>1, <3>2 DEF KeyOf
  <2> QED BY <2>1, <2>2
<1>8. e.base \notin misread => Resolve(e) = TargetOf(e)
  BY <1>5, <1>7 DEF TargetOf
<1> QED BY <1>5, <1>6, <1>8 DEF SeenItem, ItemOf, TargetOf

\* What becomes of the states shown.
LEMMA StatesShown ==
    ASSUME RegistryTypes, NEW e, e.ok = TRUE, e.state \in States, SeeState(e), NEW j \in Items
    PROVE  /\ shown' \in [Items -> SUBSET States]
           /\ \/ shown'[j] = shown[j]
              \/ /\ j = SeenItem(e) /\ e.state \in shown'[j]
                 /\ Changes(e) \/ (e.op = "query" /\ shown[j] = {})
           /\ j = SeenItem(e) /\ Changes(e) => e.state \in shown'[j]
           /\ j = SeenItem(e) /\ e.op = "query" /\ shown[j] = {} => e.state \in shown'[j]
<1>1. PICK i : i = SeenItem(e)
  OBVIOUS
<1>2. CASE i \in Items /\ (Changes(e) \/ (e.op = "query" /\ shown[i] = {}))
  <2>1. shown' = [shown EXCEPT ![i] = {e.state} \cup IF i \in recent THEN @ ELSE {}]
    BY <1>1, <1>2 DEF SeeState
  <2>2. PICK s : s = {e.state} \cup IF i \in recent THEN shown[i] ELSE {}
    OBVIOUS
  <2>3. shown' = [shown EXCEPT ![i] = s] /\ e.state \in s
    BY <2>1, <2>2
  <2>4. s \subseteq States
    BY <1>2, <2>2 DEF RegistryTypes
  <2>5. shown' \in [Items -> SUBSET States]
    BY <2>3, <2>4 DEF RegistryTypes
  <2>6. shown'[j] = IF j = i THEN s ELSE shown[j]
    BY <2>3 DEF RegistryTypes
  <2> QED BY <1>1, <1>2, <2>3, <2>5, <2>6
<1>3. CASE ~(i \in Items /\ (Changes(e) \/ (e.op = "query" /\ shown[i] = {})))
  <2>1. shown' = shown
    BY <1>1, <1>3 DEF SeeState
  <2> QED BY <1>1, <1>3, <2>1 DEF RegistryTypes
<1> QED BY <1>2, <1>3

\* A report that is not about a key.
LEMMA ReportIsElsewhere ==
    ASSUME RegistryInv, NEW t \in RegThreads, ReportCall(t), ~Standing(t)
    PROVE  Elsewhere
<1> USE DEF RegistryInv
<1>1. PICK e : e = report[t]
  OBVIOUS
<1>2. e \in RegistryCalls /\ (~e.ok \/ e.op = "close")
  BY <1>1, CallsAre DEF ReportCall, Standing
<1>3. report' = [report EXCEPT ![t] = Idle] /\ UNCHANGED <<registry, opened>>
  BY DEF ReportCall, registryWorld
<1>4. e.op = "close" => e.base \in KeyHandles
  BY <1>1 DEF RegistryTypes
<1>5. knowledge' = knowledge
  <2>1. \A i \in Items : ~(e.ok /\ e.op # "close" /\ e.base \in misread /\ i \in {ItemOf(e), SeenItem(e)})
    BY <1>2
  <2>2. knowledge' = [i \in Items |-> IF e.ok /\ e.op # "close" /\ e.base \in misread
                                         /\ i \in {ItemOf(e), SeenItem(e)}
                                      THEN "in doubt" ELSE knowledge[i]]
    BY <1>1 DEF ReportCall
  <2>3. knowledge' = [i \in Items |-> knowledge[i]]
    BY <2>1, <2>2
  <2> QED BY <2>3 DEF RegistryTypes
<1>6. shown' = shown
  <2>1. ~(e.ok /\ (Changes(e) \/ e.op = "query"))
    BY <1>2 DEF Changes
  <2>2. Reported(e) => SeeState(e)
    BY <1>1 DEF ReportCall, SeeRegistry
  <2>3. SeeState(e) => shown' = shown
    BY <2>1 DEF SeeState
  <2>4. ~Reported(e) => shown' = shown
    BY <1>1 DEF ReportCall, registryView
  <2> QED BY <2>2, <2>3, <2>4
<1>7. \/ UNCHANGED <<mapped, misread>>
      \/ /\ e.op = "close" /\ mapped' = [mapped EXCEPT ![e.base] = NoKey]
         /\ misread' = IF opened[e.base] # NoKey THEN misread \cup {e.base} ELSE misread
  <2>1. CASE ~Reported(e)
    BY <1>1, <2>1 DEF ReportCall, registryView
  <2>2. CASE Reported(e) /\ ~e.ok
    <3>1. SeeHandles(e) /\ misread' = misread
      BY <1>1, <2>2 DEF ReportCall, SeeRegistry
    <3> QED BY <2>2, <3>1 DEF SeeHandles
  <2>3. CASE Reported(e) /\ e.ok
    <3>1. SeeHandles(e) /\ e.op = "close"
      BY <1>1, <1>2, <2>3 DEF ReportCall, SeeRegistry
    <3>2. mapped' = [mapped EXCEPT ![e.base] = NoKey]
      BY <2>3, <3>1 DEF SeeHandles
    <3>3. misread' = IF opened[e.base] # NoKey THEN misread \cup {e.base} ELSE misread
      BY <1>1, <2>3, <3>1 DEF ReportCall
    <3> QED BY <3>1, <3>2, <3>3
  <2> QED BY <2>1, <2>2, <2>3
<1>8. RegistryTypes'
  <2>1. report' \in [RegThreads -> RegistryCalls \cup {Idle}]
        /\ \A u \in RegThreads : report'[u].op = "close" => report'[u].base \in KeyHandles
    BY <1>3 DEF RegistryTypes, Idle
  <2>2. mapped' \in [KeyHandles -> KeyPaths] /\ misread' \subseteq KeyHandles
    BY <1>4, <1>7, KeysArePaths DEF RegistryTypes
  <2> QED BY <1>3, <1>5, <1>6, <2>1, <2>2 DEF RegistryTypes
<1>9. ASSUME NEW u \in RegThreads
      PROVE  Standing(u)' = Standing(u) /\ (Standing(u) => report'[u] = report[u])
  <2>1. CASE u = t
    <3>1. report'[t] = Idle
      BY <1>3 DEF RegistryTypes
    <3> QED BY <2>1, <3>1 DEF Standing, Idle
  <2>2. CASE u # t
    <3>1. report'[u] = report[u]
      BY <1>3, <2>2 DEF RegistryTypes
    <3> QED BY <3>1 DEF Standing
  <2> QED BY <2>1, <2>2
<1>10. ASSUME NEW h \in KeyHandles, opened[h] # NoKey, h \notin misread'
       PROVE  h \notin misread /\ mapped'[h] = mapped[h]
  <2>1. CASE UNCHANGED <<mapped, misread>>
    BY <1>10, <2>1
  <2>2. CASE /\ e.op = "close" /\ mapped' = [mapped EXCEPT ![e.base] = NoKey]
             /\ misread' = IF opened[e.base] # NoKey THEN misread \cup {e.base} ELSE misread
    <3>1. h # e.base /\ h \notin misread
      BY <1>10, <2>2
    <3> QED BY <2>2, <3>1 DEF RegistryTypes
  <2> QED BY <1>7, <2>1, <2>2
<1> QED BY <1>3, <1>5, <1>6, <1>8, <1>9, <1>10 DEF Elsewhere

\* A report that is: what it says is shown, or is in doubt.
LEMMA ReportKeeps ==
    ASSUME RegistryInv, NEW t \in RegThreads, ReportCall(t), Standing(t)
    PROVE  RegistryInv'
<1> USE DEF RegistryInv
<1>1. PICK e : e = report[t]
  OBVIOUS
<1>2. e \in RegistryCalls /\ e.ok = TRUE /\ e.op # "close" /\ e.state \in States
  BY <1>1, StandingIsCall DEF Standing, RegistryCalls
<1>3. report' = [report EXCEPT ![t] = Idle] /\ UNCHANGED <<registry, opened>>
  BY DEF ReportCall, registryWorld
<1>4. SeeHandles(e) /\ SeeState(e)
  BY <1>1, <1>2 DEF ReportCall, Reported, SeeRegistry
<1>5. misread' = IF e.op \notin {"open", "create"} THEN misread
                 ELSE IF e.base \in misread THEN misread \cup {e.handle} ELSE misread \ {e.handle}
  BY <1>1, <1>2 DEF ReportCall, Reported
<1>6. mapped' = IF e.op \in {"open", "create"} THEN [mapped EXCEPT ![e.handle] = Resolve(e)] ELSE mapped
  BY <1>2, <1>4 DEF SeeHandles
<1>7. PICK taken, i : taken = SeenItem(e) /\ i = ItemOf(e)
  OBVIOUS
<1>8. knowledge' = [j \in Items |-> IF e.base \in misread /\ j \in {i, taken} THEN "in doubt" ELSE knowledge[j]]
  <2>1. knowledge' = [j \in Items |-> IF e.ok /\ e.op # "close" /\ e.base \in misread
                                         /\ j \in {ItemOf(e), SeenItem(e)}
                                      THEN "in doubt" ELSE knowledge[j]]
    BY <1>1 DEF ReportCall
  <2> QED BY <1>2, <1>7, <2>1
<1>9. /\ Resolve(e) \in KeyPaths
      /\ e.base \notin misread => Resolve(e) = TargetOf(e) /\ taken = i
  BY <1>1, <1>7, ResolveIs
<1>10. /\ e.op \in {"open", "create"} => e.handle \in KeyHandles /\ opened[e.handle] = TargetOf(e)
       /\ TargetOf(e) \in Keys
  BY <1>1 DEF Calling
<1>11. i \in Items
  BY <1>7, <1>10, ItemOfType
<1>12. /\ Changes(e) => knowledge[i] = "in doubt" \/ registry[i] = e.state
       /\ e.op = "query" => \/ knowledge[i] = "in doubt" \/ Changing(i)
                            \/ shown[i] # {} \/ registry[i] = e.state
  BY <1>1, <1>7 DEF Reporting, Says
<1>13. ASSUME NEW j \in Items
       PROVE  /\ \/ shown'[j] = shown[j]
                 \/ j = taken /\ e.state \in shown'[j] /\ (Changes(e) \/ (e.op = "query" /\ shown[j] = {}))
              /\ j = taken /\ Changes(e) => e.state \in shown'[j]
              /\ knowledge'[j] = "in doubt" \/ knowledge'[j] = knowledge[j]
              /\ e.base \in misread /\ j \in {i, taken} => knowledge'[j] = "in doubt"
  <2>1. /\ \/ shown'[j] = shown[j]
           \/ j = taken /\ e.state \in shown'[j] /\ (Changes(e) \/ (e.op = "query" /\ shown[j] = {}))
        /\ j = taken /\ Changes(e) => e.state \in shown'[j]
    BY <1>2, <1>4, <1>7, StatesShown
  <2>2. /\ knowledge'[j] = "in doubt" \/ knowledge'[j] = knowledge[j]
        /\ e.base \in misread /\ j \in {i, taken} => knowledge'[j] = "in doubt"
    BY <1>8
  <2> QED BY <2>1, <2>2
<1>14. ASSUME NEW u \in RegThreads
       PROVE  /\ u # t => report'[u] = report[u]
              /\ Standing(u)' => u # t /\ Standing(u) /\ report'[u] = report[u]
  <2>1. report'[u] = IF u = t THEN Idle ELSE report[u]
    BY <1>3 DEF RegistryTypes
  <2> QED BY <2>1 DEF Standing, Idle
<1>15. ASSUME NEW u \in RegThreads, Standing(u)', NEW f, f = report'[u]
       PROVE  /\ Standing(u) /\ f = report[u] /\ TargetOf(f)' = TargetOf(f) /\ ItemOf(f)' = ItemOf(f)
              /\ TargetOf(f) \in Keys /\ ItemOf(f) \in Items
  <2>1. Standing(u) /\ f = report[u]
    BY <1>14, <1>15
  <2>2. f.base # Root => opened'[f.base] = opened[f.base]
    BY <1>3
  <2>3. TargetOf(f) \in Keys
    BY <2>1 DEF Calling
  <2> QED BY <2>1, <2>2, <2>3, TargetStays, ItemOfType
<1>16. ASSUME NEW h, Opening(h)' PROVE Opening(h)
  <2>1. PICK u \in RegThreads : report'[u].ok /\ report'[u].op \in {"open", "create"} /\ report'[u].handle = h
    BY <1>16 DEF Opening
  <2>2. Standing(u)'
    BY <2>1 DEF Standing
  <2>3. report'[u] = report[u]
    BY <1>14, <2>2
  <2> QED BY <2>1, <2>3 DEF Opening
<1>17. ASSUME NEW j, Changing(j) PROVE Changing(j)' \/ (j = i /\ Changes(e))
  <2>1. PICK u \in RegThreads : report[u].ok /\ Changes(report[u]) /\ ItemOf(report[u]) = j
    BY <1>17 DEF Changing
  <2>2. CASE u = t
    BY <1>1, <1>7, <2>1, <2>2
  <2>3. CASE u # t
    <3>1. PICK f : f = report[u]
      OBVIOUS
    <3>2. report'[u] = f /\ f.ok /\ Changes(f) /\ ItemOf(f) = j
      BY <1>14, <2>1, <2>3, <3>1
    <3>3. ItemOf(f)' = ItemOf(f)
      BY <1>3, TargetStays
    <3>4. \E v \in RegThreads : report'[v].ok /\ Changes(report'[v]) /\ ItemOf(report[v])' = j
      BY <3>2, <3>3, Zenon
    <3> QED BY <3>4, Zenon DEF Changing, Changes
  <2> QED BY <2>2, <2>3
<1>18. RegistryTypes'
  <2>1. report' \in [RegThreads -> RegistryCalls \cup {Idle}]
        /\ \A u \in RegThreads : report'[u].op = "close" => report'[u].base \in KeyHandles
    BY <1>3 DEF RegistryTypes, Idle
  <2>2. mapped' \in [KeyHandles -> KeyPaths] /\ misread' \subseteq KeyHandles
    BY <1>5, <1>6, <1>9, <1>10 DEF RegistryTypes
  <2>3. knowledge' \in [Items -> {"none", "known", "in doubt"}]
    BY <1>8 DEF RegistryTypes
  <2>4. shown' \in [Items -> SUBSET States]
    BY <1>2, <1>4, <1>11, StatesShown
  <2> QED BY <1>3, <2>1, <2>2, <2>3, <2>4 DEF RegistryTypes
<1>19. Calling'
  <2>1. ASSUME NEW u \in RegThreads, Standing(u)', NEW f, f = report'[u]
        PROVE  /\ f.base # Root => opened'[f.base] # NoKey /\ ~Opening(f.base)'
               /\ TargetOf(f)' \in Keys
               /\ f.op \in {"open", "create"} => f.handle \in KeyHandles /\ opened'[f.handle] = TargetOf(f)'
    <3>1. Standing(u) /\ f = report[u] /\ TargetOf(f)' = TargetOf(f) /\ TargetOf(f) \in Keys
      BY <1>15, <2>1
    <3>2. /\ f.base # Root => opened[f.base] # NoKey /\ ~Opening(f.base)
          /\ f.op \in {"open", "create"} => f.handle \in KeyHandles /\ opened[f.handle] = TargetOf(f)
      BY <3>1 DEF Calling
    <3>3. f.base # Root => ~Opening(f.base)'
      BY <1>16, <3>2
    <3> QED BY <1>3, <3>1, <3>2, <3>3
  <2>2. ASSUME NEW u \in RegThreads, Standing(u)'
        PROVE  (/\ report[u].base # Root => opened[report[u].base] # NoKey /\ ~Opening(report[u].base)
                /\ TargetOf(report[u]) \in Keys
                /\ report[u].op \in {"open", "create"}
                   => report[u].handle \in KeyHandles /\ opened[report[u].handle] = TargetOf(report[u]))'
    <3>1. PICK f : f = report'[u]
      OBVIOUS
    <3>2. /\ f.base # Root => opened'[f.base] # NoKey /\ ~Opening(f.base)'
          /\ TargetOf(f)' \in Keys
          /\ f.op \in {"open", "create"} => f.handle \in KeyHandles /\ opened'[f.handle] = TargetOf(f)'
      BY <2>1, <2>2, <3>1
    <3> QED BY <3>1, <3>2, Zenon
  <2> QED BY <2>2 DEF Calling
<1>20. Following'
  <2> SUFFICES ASSUME NEW h \in KeyHandles, opened[h] # NoKey, h \notin misread', ~Opening(h)'
               PROVE  mapped'[h] = opened[h]
    BY <1>3 DEF Following
  <2>1. CASE e.op \in {"open", "create"} /\ h = e.handle
    <3>1. e.base \notin misread
      BY <1>5, <2>1
    <3>2. mapped'[h] = Resolve(e)
      BY <1>6, <2>1 DEF RegistryTypes
    <3> QED BY <1>9, <1>10, <2>1, <3>1, <3>2
  <2>2. CASE ~(e.op \in {"open", "create"} /\ h = e.handle)
    <3>1. h \notin misread /\ mapped'[h] = mapped[h]
      BY <1>5, <1>6, <2>2 DEF RegistryTypes
    <3>2. ASSUME Opening(h) PROVE FALSE
      <4>1. PICK u \in RegThreads : report[u].ok /\ report[u].op \in {"open", "create"} /\ report[u].handle = h
        BY <3>2 DEF Opening
      <4>2. u # t
        BY <1>1, <2>2, <4>1
      <4>3. report'[u] = report[u]
        BY <1>14, <4>2
      <4> QED BY <4>1, <4>3 DEF Opening
    <3> QED BY <3>1, <3>2 DEF Following
  <2> QED BY <2>1, <2>2
<1>21. Reporting'
  <2>1. ASSUME NEW u \in RegThreads, Standing(u)', NEW f, f = report'[u], NEW j, j = ItemOf(f)'
        PROVE  /\ Changes(f) => knowledge'[j] = "in doubt" \/ registry'[j] = f.state
               /\ f.op = "query" => \/ knowledge'[j] = "in doubt" \/ Changing(j)'
                                    \/ shown'[j] # {} \/ registry'[j] = f.state
    <3>1. Standing(u) /\ f = report[u] /\ j = ItemOf(f) /\ j \in Items
      BY <1>15, <2>1
    <3>2. /\ Changes(f) => knowledge[j] = "in doubt" \/ registry[j] = f.state
          /\ f.op = "query" => \/ knowledge[j] = "in doubt" \/ Changing(j)
                               \/ shown[j] # {} \/ registry[j] = f.state
      BY <3>1 DEF Reporting, Says
    <3>3. Changing(j) => Changing(j)' \/ (j = i /\ Changes(e))
      BY <1>17
    <3>4. /\ shown'[j] = shown[j] \/ e.state \in shown'[j]
          /\ j = taken /\ Changes(e) => e.state \in shown'[j]
          /\ knowledge'[j] = "in doubt" \/ knowledge'[j] = knowledge[j]
          /\ e.base \in misread /\ j \in {i, taken} => knowledge'[j] = "in doubt"
      BY <1>13, <3>1
    <3> HIDE DEF Changes, Changing
    <3> QED BY <1>3, <1>9, <3>2, <3>3, <3>4
  <2>2. ASSUME NEW u \in RegThreads, Standing(u)' PROVE Says(report[u])'
    <3>1. PICK f, j : f = report'[u] /\ j = ItemOf(f)'
      OBVIOUS
    <3>2. /\ Changes(f) => knowledge'[j] = "in doubt" \/ registry'[j] = f.state
          /\ f.op = "query" => \/ knowledge'[j] = "in doubt" \/ Changing(j)'
                               \/ shown'[j] # {} \/ registry'[j] = f.state
      BY <2>1, <2>2, <3>1
    <3>3. Says(f)'
      BY <3>1, <3>2, Zenon DEF Says, Changes
    <3> QED BY <3>1, <3>3, Zenon
  <2> QED BY <2>2 DEF Reporting
<1>22. FinalStateTrue'
  <2> SUFFICES ASSUME NEW j \in Items
               PROVE  \/ knowledge'[j] = "in doubt" \/ Changing(j)' \/ registry'[j] \in shown'[j]
                      \/ knowledge'[j] = "none" /\ shown'[j] = {}
    BY Zenon DEF FinalStateTrue
  <2>1. \/ knowledge[j] = "in doubt" \/ Changing(j) \/ registry[j] \in shown[j]
        \/ knowledge[j] = "none" /\ shown[j] = {}
    BY DEF FinalStateTrue
  <2>2. Changing(j) => Changing(j)' \/ (j = i /\ Changes(e))
    BY <1>17
  <2>3. /\ \/ shown'[j] = shown[j]
           \/ j = taken /\ e.state \in shown'[j] /\ (Changes(e) \/ (e.op = "query" /\ shown[j] = {}))
        /\ j = taken /\ Changes(e) => e.state \in shown'[j]
        /\ knowledge'[j] = "in doubt" \/ knowledge'[j] = knowledge[j]
        /\ e.base \in misread /\ j \in {i, taken} => knowledge'[j] = "in doubt"
    BY <1>13
  <2>4. CASE j \in {i, taken} /\ e.base \in misread
    BY <2>3, <2>4
  <2>5. CASE j \in {i, taken} /\ e.base \notin misread
    <3>1. j = i /\ j = taken
      BY <1>9, <2>5
    <3>2. e.op = "query" => ~Changes(e)
      BY DEF Changes
    <3> HIDE DEF Changes, Changing
    <3> QED BY <1>3, <1>12, <2>1, <2>2, <2>3, <3>1, <3>2
  <2>6. CASE j \notin {i, taken}
    BY <1>3, <2>1, <2>2, <2>3, <2>6
  <2> QED BY <2>4, <2>5, <2>6
<1> QED BY <1>18, <1>19, <1>20, <1>21, <1>22

LEMMA RegistryStarts == RegistryInit => RegistryInv
<1> SUFFICES ASSUME RegistryInit PROVE RegistryInv
  OBVIOUS
<1>1. /\ registry \in [Items -> {"Created", "Deleted"} \cup KeyData]
      /\ opened = [h \in KeyHandles |-> NoKey] /\ report = [t \in RegThreads |-> Idle]
      /\ mapped = [h \in KeyHandles |-> NoKey] /\ shown = [i \in Items |-> {}]
      /\ misread = {} /\ knowledge = [i \in Items |-> "none"]
  BY DEF RegistryInit
<1>2. \A t \in RegThreads : report[t] = Idle /\ ~Standing(t)
  BY <1>1 DEF Standing, Idle
<1>3. RegistryTypes
  <2>1. registry \in [Items -> States]
    BY <1>1 DEF States
  <2>2. report \in [RegThreads -> RegistryCalls \cup {Idle}]
        /\ \A t \in RegThreads : report[t].op = "close" => report[t].base \in KeyHandles
    BY <1>1, <1>2 DEF Idle
  <2>3. mapped \in [KeyHandles -> KeyPaths]
    BY <1>1, KeysArePaths
  <2> QED BY <1>1, <2>1, <2>2, <2>3 DEF RegistryTypes
<1>4. Calling /\ Following /\ Reporting
  BY <1>1, <1>2 DEF Calling, Following, Reporting
<1>5. FinalStateTrue
  BY <1>1 DEF FinalStateTrue
<1> QED BY <1>3, <1>4, <1>5 DEF RegistryInv

LEMMA RegistryStep == RegistryInv /\ [RegistryNext]_registryVars => RegistryInv'
<1> SUFFICES ASSUME RegistryInv, [RegistryNext]_registryVars PROVE RegistryInv'
  OBVIOUS
<1>t. RegistryTypes
  BY DEF RegistryInv
<1>1. ASSUME NEW t \in RegThreads, NEW e, Makes(t, e) PROVE RegistryInv'
  BY <1>1, MakesKeeps
<1>2. ASSUME NEW t \in RegThreads, NEW h \in KeyHandles, NEW b \in KeyHandles \cup {Root}, NEW k \in Keys,
             NEW api \in {"Reg", "Nt"}, OpenKey(t, h, b, k, api) \/ CreateKey(t, h, b, k, api)
      PROVE  RegistryInv'
  BY <1>t, <1>1, <1>2, OpenMakes, CreateMakes
<1>3. ASSUME NEW t \in RegThreads, NEW h \in KeyHandles, NEW d \in KeyData \cup {"Deleted"}, SetValue(t, h, d)
      PROVE  RegistryInv'
  BY <1>t, <1>1, <1>3, SetMakes
<1>4. ASSUME NEW t \in RegThreads, NEW h \in KeyHandles, QueryValue(t, h) PROVE RegistryInv'
  BY <1>t, <1>1, <1>4, QueryMakes
<1>5. ASSUME NEW t \in RegThreads, NEW h \in KeyHandles, NEW api \in {"Reg", "Nt"}, CloseKey(t, h, api)
      PROVE  RegistryInv'
  BY <1>5, CloseIsElsewhere, ElsewhereKeeps
<1>6. ASSUME NEW t \in RegThreads, NEW h \in KeyHandles, NEW op \in {"close", "set"}, RegistryCallFails(t, h, op)
      PROVE  RegistryInv'
  BY <1>6, FailingIsElsewhere, ElsewhereKeeps
<1>7. ASSUME NEW t \in RegThreads, NEW b \in KeyHandles \cup {Root}, NEW k \in Keys, DeleteKey(t, b, k)
      PROVE  RegistryInv'
  BY <1>t, <1>1, <1>7, DeleteMakes
<1>8. ASSUME NEW h \in KeyHandles, NEW k \in Keys, OpenKeyUnseen(h, k) \/ CloseKeyUnseen(h) PROVE RegistryInv'
  BY <1>8, OpenUnseenIsElsewhere, CloseUnseenIsElsewhere, ElsewhereKeeps
<1>9. ASSUME NEW t \in RegThreads, ReportCall(t) PROVE RegistryInv'
  BY <1>9, ReportKeeps, ReportIsElsewhere, ElsewhereKeeps
<1>10. CASE Millisecond \/ UNCHANGED registryVars
  <2>1. UNCHANGED <<registry, opened, report, mapped, shown, misread, knowledge>>
    BY <1>10 DEF Millisecond, registryVars, registryWorld, registryView
  <2> QED BY <2>1, RestIsElsewhere, ElsewhereKeeps
<1> QED BY <1>2, <1>3, <1>4, <1>5, <1>6, <1>7, <1>8, <1>9, <1>10 DEF RegistryNext

\* The final state that the Registry Activity view shows of a key or a value is
\* the one it has, or that of another change in the same millisecond, unless a
\* call on it stands out or the reports leave it in doubt: for every number of
\* threads, handles, keys and calls (BuildRegistryActivitySnapshot).
THEOREM FinalStateTrueHolds == RegistrySpec => []FinalStateTrue
<1>1. RegistryInv => FinalStateTrue
  BY DEF RegistryInv
<1> QED BY <1>1, RegistryStarts, RegistryStep, PTL DEF RegistrySpec

-----------------------------------------------------------------------------
\* What holds of each view holds of the three composed, where a step of one view
\* leaves the others' variables alone.
THEOREM ViewsHold == Spec => [](ReconstructionExact /\ OneRowPerProcess /\ FinalStateTrue)
<1> DEFINE Inv == FileInv /\ ProcessInv /\ RegistryInv
<1>1. Init => Inv
  BY FileInvInit, ProcessInvInit, RegistryStarts DEF Init
<1>2. Inv /\ [Next]_viewVars => Inv'
  <2> SUFFICES ASSUME Inv, [Next]_viewVars PROVE Inv'
    OBVIOUS
  <2>1. [FileNext]_fileVars /\ [ProcessNext]_processVars /\ [RegistryNext]_registryVars
    BY DEF Next, viewVars
  <2> QED BY <2>1, FileInvStep, ProcessInvStep, RegistryStep
<1>3. Inv => ReconstructionExact /\ OneRowPerProcess /\ FinalStateTrue
  BY ProcessInvRows DEF FileInv, RegistryInv
<1> QED BY <1>1, <1>2, <1>3, PTL DEF Spec

=============================================================================
