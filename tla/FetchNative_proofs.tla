------------------------- MODULE FetchNative_proofs -------------------------
(***************************************************************************)
(* What tools/fetch_native.py keeps for an archive of any length: its      *)
(* types for any number of processes, what a lone fetch may rename and     *)
(* unpack, and what any number of them answer over a cache that already    *)
(* holds the archive.                                                      *)
(***************************************************************************)
EXTENDS FetchNative, TLAPS

\* A process has a file open exactly while it downloads, and a name it can reach
\* the file by holds one.
Descriptors ==
  \A p \in Proc :
    /\ fd[p] # "none" <=> pc[p] = "stream"
    /\ fd[p] \in {"part", "archive"} => file[fd[p]] # Absent

\* Who is about to put a tree into place has one to put there.
Staging == \A p \in Proc : pc[p] = "place" => staged[p] # "none"

Base == TypeOK /\ Descriptors
IInv == Base /\ Staging

LEMMA PinnedData == [b \in Block |-> "pinned"] \in Data /\ Empty \in Data /\ Absent \notin Data
  BY FetchAssumption DEF Data, Body, Empty

LEMMA InitBase == Init => Base
<1> SUFFICES ASSUME Init PROVE Base
  OBVIOUS
<1>1. kills \in 0 .. MaxKills /\ rots \in 0 .. MaxRots /\ faults \in 0 .. MaxFaults
  <2>1. kills = 0 /\ rots = 0 /\ faults = 0 /\ MaxKills \in Nat /\ MaxRots \in Nat /\ MaxFaults \in Nat
    BY FetchAssumption DEF Init
  <2> QED
    BY <2>1
<1>2. pos \in [Proc -> 0 .. N]
  <2>1. 0 \in 0 .. N
    BY FetchAssumption
  <2> QED
    BY <2>1 DEF Init
<1>3. file \in [{"part", "archive"} -> Data \cup {Absent}]
  BY PinnedData DEF Init
<1>4. TypeOK
  BY <1>1, <1>2, <1>3 DEF Init, TypeOK, Whole, Body, Control, Ended, Removing
<1>5. Descriptors
  BY DEF Init, Descriptors
<1> QED
  BY <1>4, <1>5 DEF Base

\* Steps that move only the control, the tree and what is staged.
LEMMA QuietStep ==
  ASSUME Base, UNCHANGED <<file, fd, pos, body, agrees, rots, faults>>,
         tree' \subseteq Whole, treeOf' \in Body,
         staged' \in [Proc -> Body \cup {"none"}],
         pc' \in [Proc -> Control], \A p \in Proc : pc'[p] = "stream" <=> pc[p] = "stream",
         cut' \in BOOLEAN, changed' \subseteq Proc, kills' \in 0 .. MaxKills
  PROVE  Base'
<1>1. TypeOK'
  BY DEF Base, TypeOK
<1>2. Descriptors'
  BY DEF Base, Descriptors
<1> QED
  BY <1>1, <1>2 DEF Base

LEMMA Labels ==
  /\ {"away", "idle", "done", "refused", "purge", "clear", "drop"} \subseteq Control
  /\ {"check", "discard", "get", "stream", "rename", "look", "cached", "unpack", "place", "final"} \subseteq Control
  BY DEF Control, Ended, Removing

\* One process goes from a label that is not "stream" to another.
LEMMA Goes ==
  ASSUME Base, NEW p \in Proc, NEW label \in Control \ {"stream"}, pc[p] # "stream", Goto(p, label)
  PROVE  pc' \in [Proc -> Control] /\ \A q \in Proc : pc'[q] = "stream" <=> pc[q] = "stream"
  BY DEF Base, TypeOK, Goto

LEMMA QuietActions ==
  ASSUME Base, NEW p \in Proc,
         \/ Start(p) \/ CheckArchive(p) \/ RemoveEntry(p) \/ Removed(p) \/ RemovedByAnother(p)
         \/ HaveArchive(p) \/ Look(p) \/ Reuse(p) \/ Final(p)
  PROVE  Base'
<1>1. CASE RemoveEntry(p)
  <2>1. tree' \subseteq Whole
    BY <1>1 DEF RemoveEntry, Base, TypeOK
  <2> QED
    BY <1>1, <2>1, QuietStep DEF RemoveEntry, mine, history, counters, Base, TypeOK
<1>2. CASE ~RemoveEntry(p)
  <2>1. /\ \E label \in Control \ {"stream"} : Goto(p, label)
        /\ pc[p] # "stream"
        /\ changed' \subseteq Proc
        /\ UNCHANGED <<disk, fd, pos, body, staged, agrees, cut, counters>>
    BY <1>2, Labels DEF Base, TypeOK, history, Start, CheckArchive, Removed, RemovedByAnother, HaveArchive, Look, Reuse, Final,
         Ended, Removing
  <2>2. pc' \in [Proc -> Control] /\ \A q \in Proc : pc'[q] = "stream" <=> pc[q] = "stream"
    BY <2>1, Goes
  <2> QED
    BY <2>1, <2>2, QuietStep DEF disk, counters, Base, TypeOK
<1> QED
  BY <1>1, <1>2

LEMMA UnpackStep == ASSUME Base, NEW p \in Proc, Unpack(p) PROVE Base'
<1>1. \E label \in Control \ {"stream"} : Goto(p, label)
  BY Labels DEF Unpack
<1>2. pc' \in [Proc -> Control] /\ \A q \in Proc : pc'[q] = "stream" <=> pc[q] = "stream"
  BY <1>1, Goes DEF Unpack
<1>3. staged' \in [Proc -> Body \cup {"none"}]
  <2>1. staged' = staged \/ \E b \in Body : staged' = [staged EXCEPT ![p] = b]
    BY DEF Unpack, Body
  <2> QED
    BY <2>1 DEF Base, TypeOK
<1> QED
  BY <1>2, <1>3, QuietStep DEF Unpack, disk, history, counters, Base, TypeOK

LEMMA PlaceStep == ASSUME Base, NEW p \in Proc, Place(p), staged[p] # "none" PROVE Base'
<1>1. pc[p] = "place" /\ staged' \in [Proc -> Body \cup {"none"}] /\ tree' \subseteq Whole /\ treeOf' \in Body
  BY DEF Place, Base, TypeOK
<1>2. pc' \in [Proc -> Control] /\ \A q \in Proc : pc'[q] = "stream" <=> pc[q] = "stream"
  <2>1. CASE tree \subseteq {"dir"} /\ pc' # [pc EXCEPT ![p] = "refused"]
    <3>1. PICK listed \in SUBSET {q \in Proc : pc[q] \in Removing} :
            pc' = [q \in Proc |-> IF q = p THEN "final"
                                  ELSE IF q \notin listed THEN pc[q]
                                  ELSE IF pc[q] = "purge" THEN "get" ELSE "refused"]
      BY <2>1 DEF Place, Goto
    <3> QED
      BY <1>1, <3>1, Labels DEF Base, TypeOK, Removing
  <2>2. CASE pc' = [pc EXCEPT ![p] = "refused"]
    BY <1>1, <2>2, Labels DEF Base, TypeOK
  <2>3. CASE ~(tree \subseteq {"dir"})
    BY <2>2, <2>3 DEF Place, Goto
  <2> QED
    BY <2>1, <2>2, <2>3
<1> QED
  BY <1>1, <1>2, QuietStep DEF Place, history, counters, Base, TypeOK

\* What unlinking a name does to the descriptors open on it.
LEMMA UnlinkKeeps ==
  ASSUME Base, NEW name \in {"part", "archive"}
  PROVE  /\ Unlinked(name) \in [{"part", "archive"} -> Data \cup {Absent}]
         /\ Cut(name, fd) \in [Proc -> {"none", "part", "archive", "orphan"}]
         /\ \A q \in Proc : Cut(name, fd)[q] = "none" <=> fd[q] = "none"
         /\ \A q \in Proc : Cut(name, fd)[q] \in {"part", "archive"} =>
              Cut(name, fd)[q] # name /\ fd[q] = Cut(name, fd)[q] /\ Unlinked(name)[fd[q]] = file[fd[q]]
  BY DEF Base, TypeOK, Unlinked, Cut

LEMMA DiscardStep == ASSUME Base, NEW p \in Proc, Discard(p) PROVE Base'
<1>1. \E label \in Control \ {"stream"} : Goto(p, label)
  BY Labels DEF Discard
<1>2. pc' \in [Proc -> Control] /\ \A q \in Proc : pc'[q] = "stream" <=> pc[q] = "stream"
  BY <1>1, Goes DEF Discard
<1>3. CASE file["archive"] # Absent
  <2>1. file' = Unlinked("archive") /\ fd' = Cut("archive", fd)
        /\ UNCHANGED <<tree, treeOf, pos, body, staged, agrees, history, counters>>
    BY <1>3 DEF Discard
  <2>2. TypeOK'
    BY <1>2, <2>1, UnlinkKeeps DEF Base, TypeOK, history, counters
  <2>3. Descriptors'
    BY <1>2, <2>1, UnlinkKeeps DEF Base, Descriptors
  <2> QED
    BY <2>2, <2>3 DEF Base
<1>4. CASE file["archive"] = Absent
  BY <1>2, <1>4, QuietStep DEF Discard, history, counters, Base, TypeOK
<1> QED
  BY <1>3, <1>4

\* A download that ends, for whatever reason: the part file is unlinked or kept.
LEMMA DownloadEnds ==
  ASSUME Base, NEW p \in Proc, NEW label \in Control \ {"stream"}, Goto(p, label),
         \/ file' = file /\ fd' = [fd EXCEPT ![p] = "none"]
         \/ file' = Unlinked("part") /\ fd' = [Cut("part", fd) EXCEPT ![p] = "none"],
         UNCHANGED <<tree, treeOf, pos, body, staged, agrees, history, kills, rots>>,
         faults' \in 0 .. MaxFaults
  PROVE  Base'
<1>1. /\ file' \in [{"part", "archive"} -> Data \cup {Absent}]
      /\ fd' \in [Proc -> {"none", "part", "archive", "orphan"}]
      /\ fd'[p] = "none"
      /\ \A q \in Proc : q # p => fd'[q] = "none" <=> fd[q] = "none"
      /\ \A q \in Proc : fd'[q] \in {"part", "archive"} => fd'[q] = fd[q] /\ file'[fd[q]] = file[fd[q]]
  <2>1. CASE file' = file /\ fd' = [fd EXCEPT ![p] = "none"]
    BY <2>1 DEF Base, TypeOK
  <2>2. CASE file' = Unlinked("part") /\ fd' = [Cut("part", fd) EXCEPT ![p] = "none"]
    BY <2>2, UnlinkKeeps
  <2> QED
    BY <2>1, <2>2
<1>2. pc' \in [Proc -> Control] /\ pc'[p] # "stream" /\ \A q \in Proc : q # p => pc'[q] = pc[q]
  BY DEF Goto, Base, TypeOK
<1>3. TypeOK'
  BY <1>1, <1>2 DEF Base, TypeOK, history
<1>4. Descriptors'
  BY <1>1, <1>2 DEF Base, Descriptors
<1> QED
  BY <1>3, <1>4 DEF Base

LEMMA DownloadSteps ==
  ASSUME Base, NEW p \in Proc, DownloadFails(p) \/ DownloadMatches(p) \/ DownloadDiffers(p)
  PROVE  Base'
<1>1. faults' \in 0 .. MaxFaults
  <2>1. faults \in 0 .. MaxFaults /\ MaxFaults \in Nat
    BY FetchAssumption DEF Base, TypeOK
  <2>2. faults' = faults \/ (faults < MaxFaults /\ faults' = faults + 1)
    BY DEF DownloadFails, DownloadMatches, DownloadDiffers, counters
  <2> QED
    BY <2>1, <2>2
<1> QED
  BY <1>1, DownloadEnds, Labels DEF DownloadFails, DownloadMatches, DownloadDiffers, disk, history, counters

LEMMA ConnectStep == ASSUME Base, NEW p \in Proc, Connect(p) PROVE Base'
<1>1. /\ file' = [file EXCEPT !["part"] = Empty] /\ fd' = [fd EXCEPT ![p] = "part"]
      /\ pc' = [pc EXCEPT ![p] = "stream"] /\ pos' = [pos EXCEPT ![p] = 0]
      /\ UNCHANGED <<tree, treeOf, staged, agrees, history, kills, rots>>
  BY DEF Connect, Goto
<1>2. faults' \in 0 .. MaxFaults /\ body' \in [Proc -> Body]
  <2>1. faults \in 0 .. MaxFaults /\ MaxFaults \in Nat /\ body \in [Proc -> Body]
    BY FetchAssumption DEF Base, TypeOK
  <2>2. PICK b \in Body : /\ b = "moved" => faults < MaxFaults
                          /\ body' = [body EXCEPT ![p] = b]
                          /\ faults' = IF b = "moved" THEN faults + 1 ELSE faults
    BY DEF Connect
  <2> QED
    BY <2>1, <2>2
<1>3. 0 \in 0 .. N
  BY FetchAssumption
<1>4. file' \in [{"part", "archive"} -> Data \cup {Absent}] /\ file'["part"] # Absent /\ file'["archive"] = file["archive"]
  BY <1>1, PinnedData DEF Base, TypeOK
<1>5. TypeOK'
  BY <1>1, <1>2, <1>3, <1>4, Labels DEF Base, TypeOK, history
<1>6. Descriptors'
  BY <1>1, <1>4 DEF Base, TypeOK, Descriptors
<1> QED
  BY <1>5, <1>6 DEF Base

LEMMA ReceiveStep == ASSUME Base, NEW p \in Proc, Receive(p) PROVE Base'
<1>1. pos[p] \in 0 .. N /\ pos[p] < N /\ N \in Nat /\ body[p] \in Body
  BY FetchAssumption DEF Base, TypeOK, Receive
<1>2. pos[p] + 1 \in 0 .. N /\ pos[p] + 1 \in Block
  BY <1>1 DEF Block
<1>3. pos' \in [Proc -> 0 .. N]
  BY <1>2 DEF Receive, Base, TypeOK
<1>4. /\ file' \in [{"part", "archive"} -> Data \cup {Absent}]
      /\ \A name \in {"part", "archive"} : file[name] # Absent => file'[name] # Absent
  <2>1. CASE fd[p] = "orphan"
    BY <2>1 DEF Receive, Base, TypeOK
  <2>2. CASE fd[p] # "orphan"
    <3>1. fd[p] \in {"part", "archive"}
      BY <2>2 DEF Receive, Base, TypeOK, Descriptors
    <3>2. file[fd[p]] \in Data
      BY <3>1 DEF Base, TypeOK, Descriptors
    <3> DEFINE data == [file[fd[p]] EXCEPT ![pos[p] + 1] = body[p]]
    <3>3. data \in Data
      BY <1>1, <3>2 DEF Data
    <3>4. file' = [file EXCEPT ![fd[p]] = data]
      BY <2>2 DEF Receive
    <3> HIDE DEF data
    <3> QED
      BY <3>1, <3>3, <3>4, PinnedData DEF Base, TypeOK
  <2> QED
    BY <2>1, <2>2
<1>5. UNCHANGED <<tree, treeOf, fd, body, staged, pc, agrees, history, counters>>
  BY DEF Receive
<1>6. TypeOK'
  BY <1>3, <1>4, <1>5 DEF Base, TypeOK, history, counters
<1>7. Descriptors'
  BY <1>4, <1>5 DEF Base, Descriptors
<1> QED
  BY <1>6, <1>7 DEF Base

LEMMA RenameStep == ASSUME Base, NEW p \in Proc, Rename(p) PROVE Base'
<1>1. \E label \in Control \ {"stream"} : Goto(p, label)
  BY Labels DEF Rename
<1>2. pc' \in [Proc -> Control] /\ \A q \in Proc : pc'[q] = "stream" <=> pc[q] = "stream"
  BY <1>1, Goes DEF Rename
<1>3. CASE file["part"] = Absent
  BY <1>2, <1>3, QuietStep DEF Rename, history, counters, Base, TypeOK
<1>4. CASE file["part"] # Absent
  <2>1. /\ file' = [part |-> Absent, archive |-> file["part"]]
        /\ fd' = [q \in Proc |-> CASE fd[q] = "part" -> "archive"
                                   [] fd[q] = "archive" -> "orphan"
                                   [] OTHER -> fd[q]]
        /\ UNCHANGED <<tree, treeOf, pos, body, staged, agrees, history, counters>>
    BY <1>4 DEF Rename
  <2>2. file["part"] \in Data
    BY <1>4 DEF Base, TypeOK
  <2>3. file' \in [{"part", "archive"} -> Data \cup {Absent}] /\ file'["archive"] # Absent
    BY <2>1, <2>2, PinnedData
  <2>4. /\ fd' \in [Proc -> {"none", "part", "archive", "orphan"}]
        /\ \A q \in Proc : fd'[q] # "part" /\ (fd'[q] = "none" <=> fd[q] = "none")
    BY <2>1 DEF Base, TypeOK
  <2>5. TypeOK'
    BY <1>2, <2>1, <2>3, <2>4 DEF Base, TypeOK, history, counters
  <2>6. Descriptors'
    BY <1>2, <2>3, <2>4 DEF Base, Descriptors
  <2> QED
    BY <2>5, <2>6 DEF Base
<1> QED
  BY <1>3, <1>4

LEMMA KillStep == ASSUME Base, NEW p \in Proc, Kill(p) PROVE Base'
<1>1. /\ kills' \in 0 .. MaxKills /\ cut' \in BOOLEAN
  <2>1. kills \in 0 .. MaxKills /\ MaxKills \in Nat /\ kills < MaxKills /\ kills' = kills + 1
    BY FetchAssumption DEF Base, TypeOK, Kill
  <2> QED
    BY <2>1 DEF Kill
<1>2. /\ pc' = [pc EXCEPT ![p] = "idle"] /\ fd' = [fd EXCEPT ![p] = "none"] /\ staged' = [staged EXCEPT ![p] = "none"]
      /\ UNCHANGED <<file, tree, treeOf, pos, body, agrees, changed, rots, faults>>
  BY DEF Kill, Goto, disk
<1>3. TypeOK'
  BY <1>1, <1>2, Labels DEF Base, TypeOK
<1>4. Descriptors'
  BY <1>2 DEF Base, TypeOK, Descriptors
<1> QED
  BY <1>3, <1>4 DEF Base

\* What Rot leaves under the archive's name is not what was pinned.
LEMMA RotLeaves ==
  ASSUME Base, Rot
  PROVE  /\ \E data \in Data : file' = [file EXCEPT !["archive"] = data] /\ ~Pinned(data)
         /\ file["archive"] # Absent /\ changed' = Proc
         /\ UNCHANGED <<tree, treeOf, fd, pos, body, staged, pc, agrees, cut, kills, faults>>
<1>1. file["archive"] # Absent /\ changed' = Proc
      /\ UNCHANGED <<tree, treeOf, fd, pos, body, staged, pc, agrees, cut, kills, faults>>
  BY DEF Rot, mine
<1>2. file["archive"] \in Data /\ 1 \in Block
  BY <1>1, FetchAssumption DEF Base, TypeOK, Block
<1>3. PICK data \in {[file["archive"] EXCEPT ![b] = "rot"] : b \in Block} \cup {[b \in Block |-> "moved"]} :
        file' = [file EXCEPT !["archive"] = data]
  BY DEF Rot
<1>4. data \in Data /\ ~Pinned(data)
  <2>1. CASE data = [b \in Block |-> "moved"]
    <3>1. data \in Data /\ data[1] = "moved"
      BY <1>2, <2>1 DEF Data, Body
    <3> QED
      BY <1>2, <3>1 DEF Pinned
  <2>2. ASSUME NEW b \in Block, data = [file["archive"] EXCEPT ![b] = "rot"] PROVE data \in Data /\ ~Pinned(data)
    <3>1. data \in Data /\ data[b] = "rot"
      BY <1>2, <2>2 DEF Data
    <3> QED
      BY <3>1 DEF Pinned
  <2> QED
    BY <1>3, <2>1, <2>2
<1> QED
  BY <1>1, <1>3, <1>4

LEMMA RotStep == ASSUME Base, Rot PROVE Base'
<1>1. PICK data \in Data : file' = [file EXCEPT !["archive"] = data]
  BY RotLeaves
<1>2. file' \in [{"part", "archive"} -> Data \cup {Absent}] /\ file'["archive"] # Absent /\ file'["part"] = file["part"]
  BY <1>1, PinnedData DEF Base, TypeOK
<1>3. rots' \in 0 .. MaxRots
  <2>1. rots \in 0 .. MaxRots /\ MaxRots \in Nat /\ rots < MaxRots /\ rots' = rots + 1
    BY FetchAssumption DEF Base, TypeOK, Rot
  <2> QED
    BY <2>1
<1>4. TypeOK'
  BY <1>2, <1>3, RotLeaves DEF Base, TypeOK
<1>5. Descriptors'
  BY <1>2, RotLeaves DEF Base, Descriptors
<1> QED
  BY <1>4, <1>5 DEF Base

LEMMA StutterBase == ASSUME Base, UNCHANGED vars PROVE Base'
<1>1. TypeOK'
  BY DEF Base, TypeOK, vars, history, counters
<1>2. Descriptors'
  BY DEF Base, Descriptors, vars
<1> QED
  BY <1>1, <1>2 DEF Base

LEMMA StagingStep == ASSUME IInv, [Next]_vars PROVE Staging'
<1> SUFFICES ASSUME NEW q \in Proc, pc'[q] = "place" PROVE staged'[q] # "none"
  BY DEF Staging
<1> USE DEF IInv, Base
<1>1. CASE pc[q] = "place" /\ staged'[q] = staged[q]
  BY <1>1 DEF Staging
<1>2. ASSUME NEW p \in Proc, Unpack(p) PROVE staged'[q] # "none"
  <2>1. CASE q = p
    BY <1>2, <2>1 DEF Unpack, Goto, TypeOK, Body
  <2>2. CASE q # p
    BY <1>2, <2>2 DEF Unpack, Goto, TypeOK, Staging
  <2> QED
    BY <2>1, <2>2
<1>3. ASSUME NEW p \in Proc, Place(p) PROVE staged'[q] # "none"
  <2>1. pc[q] = "place" /\ q # p
    <3>1. CASE ~(tree \subseteq {"dir"}) \/ pc' = [pc EXCEPT ![p] = "refused"]
      BY <1>3, <3>1 DEF Place, Goto, TypeOK
    <3>2. CASE tree \subseteq {"dir"}
      BY <1>3, <3>2 DEF Place, TypeOK
    <3> QED
      BY <3>1, <3>2
  <2> QED
    BY <1>3, <2>1 DEF Place, TypeOK, Staging
<1>4. ASSUME NEW p \in Proc, Kill(p) PROVE staged'[q] # "none"
  BY <1>4 DEF Kill, Goto, TypeOK, Staging
<1>5. ASSUME NEW p \in Proc, Start(p) \/ CheckArchive(p) \/ Removed(p) \/ RemovedByAnother(p) \/ HaveArchive(p)
                            \/ Look(p) \/ Reuse(p) \/ Final(p)
      PROVE  staged'[q] # "none"
  <2>1. \E label \in Control \ {"place"} : Goto(p, label)
    BY <1>5, Labels DEF Start, CheckArchive, Removed, RemovedByAnother, HaveArchive, Look, Reuse, Final, Removing
  <2>2. staged' = staged
    BY <1>5 DEF Start, CheckArchive, Removed, RemovedByAnother, HaveArchive, Look, Reuse, Final
  <2> QED
    BY <2>1, <2>2 DEF Goto, TypeOK, Staging
<1>6. ASSUME NEW p \in Proc, Discard(p) \/ Connect(p) \/ DownloadFails(p) \/ DownloadMatches(p)
                            \/ DownloadDiffers(p) \/ Rename(p)
      PROVE  staged'[q] # "none"
  <2>1. \E label \in Control \ {"place"} : Goto(p, label)
    BY <1>6, Labels DEF Discard, Connect, DownloadFails, DownloadMatches, DownloadDiffers, Rename
  <2>2. staged' = staged
    BY <1>6 DEF Discard, Connect, DownloadFails, DownloadMatches, DownloadDiffers, Rename
  <2> QED
    BY <2>1, <2>2 DEF Goto, TypeOK, Staging
<1>7. ASSUME NEW p \in Proc, RemoveEntry(p) \/ Receive(p) PROVE staged'[q] # "none"
  BY <1>7 DEF RemoveEntry, Receive, mine, Staging
<1>8. CASE Rot \/ UNCHANGED vars
  BY <1>8 DEF Rot, mine, vars, Staging
<1> QED
  BY <1>2, <1>3, <1>4, <1>5, <1>6, <1>7, <1>8 DEF Next, Step

LEMMA StepIInv == IInv /\ [Next]_vars => IInv'
<1> SUFFICES ASSUME IInv, [Next]_vars PROVE Base'
  BY StagingStep DEF IInv
<1> USE DEF IInv
<1>1. ASSUME NEW p \in Proc, Step(p) PROVE Base'
  <2>1. CASE Place(p)
    <3>1. staged[p] # "none"
      BY <2>1 DEF Place, Staging
    <3> QED
      BY <2>1, <3>1, PlaceStep
  <2>2. CASE ~Place(p)
    BY <1>1, <2>2, QuietActions, UnpackStep, DiscardStep, DownloadSteps, ConnectStep, ReceiveStep, RenameStep DEF Step
  <2> QED
    BY <2>1, <2>2
<1>2. ASSUME NEW p \in Proc, Start(p) \/ Kill(p) PROVE Base'
  BY <1>2, QuietActions, KillStep
<1>3. CASE Rot
  BY <1>3, RotStep
<1>4. CASE UNCHANGED vars
  BY <1>4, StutterBase
<1> QED
  BY <1>1, <1>2, <1>3, <1>4 DEF Next

LEMMA InitIInv == Init => IInv
<1>1. Init => Staging
  BY DEF Init, Staging
<1> QED
  BY <1>1, InitBase DEF IInv

LEMMA Invariant == Spec => []IInv
  BY InitIInv, StepIInv, PTL DEF Spec

\* Any number of processes over one cache keep the types of its files and of their
\* own state, whoever is killed and whatever is spoiled.
THEOREM FetchTypes == Spec => []TypeOK
<1>1. IInv => TypeOK
  BY DEF IInv, Base
<1> QED
  BY <1>1, Invariant, PTL

-----------------------------------------------------------------------------
\* The tree changes where an entry is removed, by a process that goes on removing,
\* and where a whole one is put in the place of nothing.
LEMMA FinishedStep ==
  ASSUME IInv, LooksFinishedIsFinished, [Next]_vars
  PROVE  LooksFinishedIsFinished'
<1> USE DEF IInv, Base
<1> SUFFICES ASSUME "top" \in tree', tree' # Whole, ~cut'
             PROVE  \E q \in Proc : pc'[q] \in Removing
  BY DEF LooksFinishedIsFinished
<1>1. ASSUME NEW p \in Proc, RemoveEntry(p) PROVE \E q \in Proc : pc'[q] \in Removing
  BY <1>1 DEF RemoveEntry, mine
<1>2. ASSUME NEW p \in Proc, Place(p) PROVE \E q \in Proc : pc'[q] \in Removing
  <2>1. ~(tree \subseteq {"dir"}) /\ tree' = tree /\ pc' = [pc EXCEPT ![p] = "refused"] /\ cut' = cut
    BY <1>2 DEF Place, Goto, history
  <2>2. PICK q \in Proc : pc[q] \in Removing
    BY <2>1 DEF LooksFinishedIsFinished
  <2>3. pc[p] = "place"
    BY <1>2 DEF Place
  <2>4. q # p
    BY <2>2, <2>3 DEF Removing
  <2> QED
    BY <2>1, <2>2, <2>4 DEF TypeOK
<1>3. ASSUME NEW p \in Proc, Kill(p) PROVE \E q \in Proc : pc'[q] \in Removing
  <2>1. ~cut /\ pc[p] \notin Removing /\ tree' = tree /\ pc' = [pc EXCEPT ![p] = "idle"]
    BY <1>3 DEF Kill, Goto, disk
  <2> QED
    BY <2>1 DEF LooksFinishedIsFinished, TypeOK
<1>4. ASSUME NEW p \in Proc,
             \/ Start(p) \/ CheckArchive(p) \/ Discard(p) \/ Removed(p) \/ RemovedByAnother(p) \/ HaveArchive(p)
             \/ Connect(p) \/ DownloadFails(p) \/ DownloadMatches(p) \/ DownloadDiffers(p) \/ Rename(p)
             \/ Look(p) \/ Reuse(p) \/ Unpack(p) \/ Final(p)
      PROVE  \E q \in Proc : pc'[q] \in Removing
  <2>1. tree' = tree /\ cut' = cut
    BY <1>4 DEF Start, CheckArchive, Discard, Removed, RemovedByAnother, HaveArchive, Connect, DownloadFails,
         DownloadMatches, DownloadDiffers, Rename, Look, Reuse, Unpack, Final, disk, history
  <2>2. pc[p] \notin Removing
    BY <1>4, <2>1 DEF Start, CheckArchive, Discard, Removed, RemovedByAnother, HaveArchive, Connect, DownloadFails,
         DownloadMatches, DownloadDiffers, Rename, Look, Reuse, Unpack, Final, Removing, Ended
  <2>3. \A q \in Proc : q # p => pc'[q] = pc[q]
    BY <1>4 DEF Start, CheckArchive, Discard, Removed, RemovedByAnother, HaveArchive, Connect, DownloadFails,
         DownloadMatches, DownloadDiffers, Rename, Look, Reuse, Unpack, Final, Goto, TypeOK
  <2>4. PICK q \in Proc : pc[q] \in Removing
    BY <2>1 DEF LooksFinishedIsFinished
  <2> QED
    BY <2>2, <2>3, <2>4
<1>5. ASSUME NEW p \in Proc, Receive(p) PROVE \E q \in Proc : pc'[q] \in Removing
  BY <1>5 DEF Receive, history, LooksFinishedIsFinished
<1>6. CASE Rot \/ UNCHANGED vars
  BY <1>6 DEF Rot, mine, vars, history, LooksFinishedIsFinished
<1> QED
  BY <1>1, <1>2, <1>3, <1>4, <1>5, <1>6 DEF Next, Step

\* Any number of fetches, killed where they may be: a directory that looks finished
\* is whole, but for a removal that is running or was cut short.
THEOREM LooksFinishedIsWhole == Spec => []LooksFinishedIsFinished
<1>1. Init => LooksFinishedIsFinished
  BY DEF Init, LooksFinishedIsFinished
<1> QED
  BY <1>1, FinishedStep, Invariant, PTL DEF Spec

\* While there is a part file somebody is about to rename or to unlink it, whoever
\* it was that wrote it.
PartIsSeenTo == kills = 0 /\ file["part"] # Absent => \E p \in Proc : pc[p] \in {"stream", "rename"}

LEMMA PartStep ==
  ASSUME IInv, PartIsSeenTo, [Next]_vars
  PROVE  PartIsSeenTo'
<1> USE DEF IInv, Base
<1> SUFFICES ASSUME kills' = 0, file'["part"] # Absent
             PROVE  \E q \in Proc : pc'[q] \in {"stream", "rename"}
  BY DEF PartIsSeenTo
<1>1. ASSUME NEW p \in Proc, Kill(p) PROVE FALSE
  BY <1>1, FetchAssumption DEF Kill, TypeOK
<1>2. ASSUME NEW p \in Proc, Connect(p) \/ DownloadMatches(p)
      PROVE  \E q \in Proc : pc'[q] \in {"stream", "rename"}
  BY <1>2 DEF Connect, DownloadMatches, Goto, TypeOK
<1>3. ASSUME NEW p \in Proc, DownloadFails(p) \/ DownloadDiffers(p) PROVE FALSE
  BY <1>3 DEF DownloadFails, DownloadDiffers, Unlinked, TypeOK
<1>4. ASSUME NEW p \in Proc, Rename(p) PROVE FALSE
  BY <1>4 DEF Rename
<1>5. ASSUME NEW p \in Proc, Place(p) PROVE \E q \in Proc : pc'[q] \in {"stream", "rename"}
  <2>1. kills = 0 /\ file' = file /\ pc[p] = "place"
    BY <1>5 DEF Place, counters
  <2>2. PICK q \in Proc : pc[q] \in {"stream", "rename"}
    BY <2>1 DEF PartIsSeenTo
  <2>3. pc'[q] = pc[q]
    <3>1. CASE tree \subseteq {"dir"} /\ pc' # [pc EXCEPT ![p] = "refused"]
      BY <1>5, <2>1, <2>2, <3>1 DEF Place, Goto, TypeOK, Removing
    <3>2. CASE pc' = [pc EXCEPT ![p] = "refused"]
      BY <2>1, <2>2, <3>2 DEF TypeOK
    <3> QED
      BY <1>5, <3>1, <3>2 DEF Place, Goto
  <2> QED
    BY <2>2, <2>3
<1>6. ASSUME NEW p \in Proc,
             \/ Start(p) \/ CheckArchive(p) \/ Discard(p) \/ Removed(p) \/ RemovedByAnother(p) \/ HaveArchive(p)
             \/ Look(p) \/ Reuse(p) \/ Unpack(p) \/ Final(p)
      PROVE  \E q \in Proc : pc'[q] \in {"stream", "rename"}
  <2>1. kills = 0 /\ file'["part"] = file["part"]
    BY <1>6 DEF Start, CheckArchive, Discard, Removed, RemovedByAnother, HaveArchive, Look, Reuse, Unpack, Final,
         disk, history, counters, Unlinked, TypeOK
  <2>2. pc[p] \notin {"stream", "rename"}
    BY <1>6 DEF Start, CheckArchive, Discard, Removed, RemovedByAnother, HaveArchive, Look, Reuse, Unpack, Final,
         Removing, Ended
  <2>3. \A q \in Proc : q # p => pc'[q] = pc[q]
    BY <1>6 DEF Start, CheckArchive, Discard, Removed, RemovedByAnother, HaveArchive, Look, Reuse, Unpack, Final,
         Goto, TypeOK
  <2>4. PICK q \in Proc : pc[q] \in {"stream", "rename"}
    BY <2>1 DEF PartIsSeenTo
  <2> QED
    BY <2>2, <2>3, <2>4
<1>7. ASSUME NEW p \in Proc, Receive(p) PROVE \E q \in Proc : pc'[q] \in {"stream", "rename"}
  BY <1>7 DEF Receive
<1>8. ASSUME NEW p \in Proc, RemoveEntry(p) PROVE \E q \in Proc : pc'[q] \in {"stream", "rename"}
  BY <1>8 DEF RemoveEntry, mine, history, counters, PartIsSeenTo
<1>9. CASE Rot
  <2>1. kills = 0 /\ file'["part"] = file["part"] /\ pc' = pc
    BY <1>9 DEF Rot, mine, TypeOK
  <2> QED
    BY <2>1 DEF PartIsSeenTo
<1>10. CASE UNCHANGED vars
  BY <1>10 DEF vars, counters, PartIsSeenTo
<1> QED
  BY <1>1, <1>2, <1>3, <1>4, <1>5, <1>6, <1>7, <1>8, <1>9, <1>10 DEF Next, Step

\* However many fetches share the part file, the last one to end by itself leaves
\* none behind.
THEOREM NoPartIsLeft == Spec => []NoDebris
<1>1. Init => PartIsSeenTo
  BY DEF Init, PartIsSeenTo
<1>2. PartIsSeenTo => NoDebris
  BY DEF PartIsSeenTo, NoDebris, Ended
<1> QED
  BY <1>1, <1>2, PartStep, Invariant, PTL DEF Spec

-----------------------------------------------------------------------------
\* Over a cache that holds the archive nobody downloads, and where the manifest
\* agrees with it nobody removes: the tree is there or it is not.
Warm ==
  /\ file["archive"] # Absent /\ Pinned(file["archive"])
  /\ \A p \in Proc : pc[p] \notin {"discard", "stream", "rename"}
  /\ treeOf = "pinned" /\ \A p \in Proc : staged[p] # "moved"
  /\ agrees => tree \in {{}, Whole} /\ \A p \in Proc : pc[p] \notin Removing

\* Rot is counted, and no count is taken back.
LEMMA RotsStay == ASSUME IInv, [Next]_vars, rots' = 0 PROVE rots = 0
<1> USE DEF IInv, Base
<1>1. rots \in Nat
  BY FetchAssumption DEF TypeOK
<1>2. ~Rot
  BY <1>1 DEF Rot
<1>3. ASSUME NEW p \in Proc, Start(p) \/ Step(p) \/ Kill(p) PROVE rots' = rots
  BY <1>3
     DEF Start, Step, Kill, CheckArchive, Discard, RemoveEntry, Removed, RemovedByAnother, HaveArchive,
         Connect, Receive, DownloadFails, DownloadMatches, DownloadDiffers, Rename, Look, Reuse, Unpack,
         Place, Final, counters
<1> QED
  BY <1>2, <1>3 DEF Next, vars, counters

LEMMA WarmStep ==
  ASSUME IInv, Warm, [Next]_vars, rots' = 0
  PROVE  Warm' /\ \A q \in Proc : pc[q] # "done" /\ pc'[q] = "done" => tree = Whole
<1> USE DEF IInv, Base
<1>1. ASSUME NEW p \in Proc, RemoveEntry(p)
      PROVE  Warm' /\ \A q \in Proc : pc[q] # "done" /\ pc'[q] = "done" => tree = Whole
  BY <1>1 DEF RemoveEntry, mine, Warm
<1>2. ASSUME NEW p \in Proc, Place(p)
      PROVE  Warm' /\ \A q \in Proc : pc[q] # "done" /\ pc'[q] = "done" => tree = Whole
  <2>1. UNCHANGED <<file, agrees>> /\ staged' = [staged EXCEPT ![p] = "none"]
    BY <1>2 DEF Place
  <2>2. \A q \in Proc : pc'[q] = pc[q] \/ pc'[q] \in {"final", "refused", "get"}
    <3>1. CASE ~(tree \subseteq {"dir"}) \/ pc' = [pc EXCEPT ![p] = "refused"]
      BY <1>2, <3>1 DEF Place, Goto, TypeOK
    <3>2. CASE tree \subseteq {"dir"}
      BY <1>2, <3>2 DEF Place, TypeOK
    <3> QED
      BY <3>1, <3>2
  <2>3. /\ tree' = tree \/ tree' = Whole
        /\ treeOf' \in {treeOf, staged[p]} /\ staged[p] \in {"pinned", "moved"}
    BY <1>2 DEF Place, Staging, TypeOK, Body
  <2>4. treeOf' = "pinned" /\ \A q \in Proc : staged'[q] # "moved"
    BY <2>1, <2>3 DEF Warm, TypeOK
  <2> QED
    BY <2>1, <2>2, <2>3, <2>4 DEF Warm, Removing
<1>3. ASSUME NEW p \in Proc,
             \/ Start(p) \/ CheckArchive(p) \/ Removed(p) \/ RemovedByAnother(p) \/ HaveArchive(p)
             \/ Look(p) \/ Unpack(p) \/ Kill(p) \/ Reuse(p) \/ Final(p)
      PROVE  Warm' /\ \A q \in Proc : pc[q] # "done" /\ pc'[q] = "done" => tree = Whole
  <2>1. UNCHANGED <<file, tree, agrees>>
    BY <1>3 DEF Start, CheckArchive, Removed, RemovedByAnother, HaveArchive, Look, Unpack, Kill, Reuse, Final, disk
  <2>8. treeOf' = "pinned" /\ \A q \in Proc : staged'[q] # "moved"
    <3>1. treeOf' = treeOf
      BY <1>3 DEF Start, CheckArchive, Removed, RemovedByAnother, HaveArchive, Look, Unpack, Kill, Reuse, Final, disk
    <3>2. staged' = staged \/ \E b \in {"pinned", "none"} : staged' = [staged EXCEPT ![p] = b]
      BY <1>3 DEF Start, CheckArchive, Removed, RemovedByAnother, HaveArchive, Look, Unpack, Kill, Reuse, Final, Warm
    <3> QED
      BY <3>1, <3>2 DEF Warm, TypeOK
  <2>9. ASSUME Reuse(p) \/ Final(p), pc'[p] = "done" PROVE agrees /\ "linkinfo" \in tree
    <3>1. PICK ok \in Linkinfo : Certified(ok) /\ ok
      BY <2>9 DEF Reuse, Final, Goto, TypeOK
    <3>2. "linkinfo" \in tree
      BY <3>1 DEF Linkinfo
    <3> QED
      BY <3>1, <3>2 DEF Certified, Warm
  <2>2. PICK label \in Control : Goto(p, label)
    BY <1>3, Labels
       DEF Start, CheckArchive, Removed, RemovedByAnother, HaveArchive, Look, Unpack, Kill, Reuse, Final, Removing
  <2>3. pc'[p] = label /\ \A q \in Proc : q # p => pc'[q] = pc[q]
    BY <2>2 DEF Goto, TypeOK
  <2>4. label \notin {"discard", "stream", "rename"}
    BY <1>3, <2>2, <2>3
       DEF Start, CheckArchive, Removed, RemovedByAnother, HaveArchive, Look, Unpack, Kill, Reuse, Final,
           Removing, Warm, Goto, TypeOK
  <2>5. agrees => label \notin Removing
    <3>1. agrees /\ Look(p) => label # "clear"
      BY <2>3 DEF Look, Goto, TypeOK, Warm, Whole
    <3>2. agrees /\ Final(p) => label # "drop"
      <4> SUFFICES ASSUME agrees, Final(p) PROVE label # "drop"
        OBVIOUS
      <4>1. PICK ok \in Linkinfo :
              Certified(ok) /\ Goto(p, IF "top" \notin tree THEN "refused" ELSE IF ok THEN "done" ELSE "drop")
        BY DEF Final
      <4>2. tree = {} \/ tree = Whole
        BY DEF Warm
      <4>3. "top" \in tree => ok
        BY <4>1, <4>2 DEF Certified, Warm, Whole
      <4> QED
        BY <2>3, <4>1, <4>3 DEF Goto, TypeOK
    <3> QED
      BY <1>3, <2>2, <2>3, <3>1, <3>2
         DEF Start, CheckArchive, Removed, RemovedByAnother, HaveArchive, Look, Unpack, Kill, Reuse, Final,
             Removing, Warm, Goto, TypeOK
  <2>6. Warm'
    BY <2>1, <2>3, <2>4, <2>5, <2>8 DEF Warm
  <2>7. label = "done" => tree = Whole
    <3>1. label = "done" => (Reuse(p) \/ Final(p)) /\ agrees /\ "linkinfo" \in tree
      <4>1. label = "done" => Reuse(p) \/ Final(p)
        BY <1>3, <2>2, <2>3
           DEF Start, CheckArchive, Removed, RemovedByAnother, HaveArchive, Look, Unpack, Kill, Removing, Goto, TypeOK
      <4> QED
        BY <2>3, <2>9, <4>1
    <3> QED
      BY <3>1 DEF Warm
  <2> QED
    BY <2>3, <2>6, <2>7
<1>4. ASSUME NEW p \in Proc,
             \/ Discard(p) \/ Connect(p) \/ Receive(p) \/ DownloadFails(p) \/ DownloadMatches(p)
             \/ DownloadDiffers(p) \/ Rename(p)
      PROVE  FALSE
  BY <1>4 DEF Discard, Connect, Receive, DownloadFails, DownloadMatches, DownloadDiffers, Rename, Warm
<1>5. CASE UNCHANGED vars
  BY <1>5 DEF vars, Warm
<1>6. ~Rot
  BY RotsStay DEF Rot
<1> QED
  BY <1>1, <1>2, <1>3, <1>4, <1>5, <1>6 DEF Next, Step

\* From a cache that holds the verified archive, and for as long as that archive
\* keeps its bytes: whichever of any number of concurrent fetches succeeds answers
\* the whole tree, and a kill of any of them at any point changes nothing about
\* that.
THEOREM WarmAnswersAreWhole == WarmSpec => WarmAnswersHoldEverything
<1> DEFINE WarmYet == rots = 0 => Warm
<1>1. WarmInit => Init /\ WarmYet
  BY DEF WarmInit, Init, Warm, Pinned, Removing
<1>2. IInv /\ WarmYet /\ [Next]_vars => WarmYet'
  BY WarmStep, RotsStay
<1>3. IInv /\ WarmYet /\ [Next]_vars
      => [rots' = 0 => \A p \in Proc : pc[p] # "done" /\ pc'[p] = "done" => tree = Whole]_vars
  BY WarmStep, RotsStay
<1>4. WarmSpec => []IInv
  BY <1>1, InitIInv, StepIInv, PTL DEF WarmSpec
<1> HIDE DEF WarmYet
<1> QED
  BY <1>1, <1>2, <1>3, <1>4, PTL DEF WarmSpec, WarmAnswersHoldEverything

-----------------------------------------------------------------------------
\* Alone in the cache: what has been received is what the part file holds, so that
\* the hash taken of the one is the hash of the other.
PartIsReceived(p) ==
  pc[p] = "stream" => fd[p] = "part" /\ \A b \in Block : b <= pos[p] => file["part"][b] = body[p]
RenamesAMatch(p) == pc[p] = "rename" => file["part"] = Absent \/ Pinned(file["part"])
NothingDownloadedYet(p) == pc[p] \in {"stream", "rename"} => file["archive"] = Absent

\* The archive is not the pinned one: a fetch that hashes it discards it.  As long
\* as there is such an archive, or the tree is being discarded with it, a tree that
\* was unpacked from it may be there; and a fetch that hashed the archive works
\* with no such archive unless it changed since.
ArchiveDiffers == file["archive"] # Absent /\ ~Pinned(file["archive"])
StagedFromIt(p) == staged[p] = "moved" => pc[p] = "place" /\ ArchiveDiffers
TreeFromIt(p) == tree # {} /\ treeOf # "pinned" /\ ~cut => ArchiveDiffers \/ pc[p] = "purge"
HashedIsPinned(p) ==
  p \notin changed /\ pc[p] \notin Ended \cup {"check", "discard"} => ~ArchiveDiffers

Lone(p) ==
  /\ PartIsReceived(p) /\ RenamesAMatch(p) /\ NothingDownloadedYet(p)
  /\ StagedFromIt(p) /\ TreeFromIt(p) /\ HashedIsPinned(p)

\* Steps at which neither file, nor who stands where a file matters, changes.
LEMMA LoneQuiet ==
  ASSUME NEW p \in Proc, IInv, Lone(p),
         UNCHANGED <<file, treeOf, staged>>, cut' \in {cut, TRUE}, changed' = changed,
         tree' \in SUBSET tree, pc[p] \notin {"stream", "rename", "place"}, pc'[p] \notin {"stream", "rename"},
         pc[p] = "purge" => pc'[p] = "purge" \/ tree' = {} \/ cut',
         pc[p] \in Ended \cup {"check", "discard"} => pc'[p] \in Ended \cup {"check"}
  PROVE  Lone(p)'
<1> USE DEF IInv, Base, Lone
<1>1. ArchiveDiffers' = ArchiveDiffers
  BY DEF ArchiveDiffers, Pinned
<1>2. PartIsReceived(p)' /\ RenamesAMatch(p)' /\ NothingDownloadedYet(p)'
  BY DEF PartIsReceived, RenamesAMatch, NothingDownloadedYet
<1>3. StagedFromIt(p)'
  BY <1>1 DEF StagedFromIt
<1>4. TreeFromIt(p)'
  BY <1>1 DEF TreeFromIt
<1>5. HashedIsPinned(p)'
  BY <1>1 DEF HashedIsPinned
<1> QED
  BY <1>2, <1>3, <1>4, <1>5

\* Steps of a download: the archive's name holds no file before and after.
LEMMA LoneDownload ==
  ASSUME NEW p \in Proc, IInv, Lone(p),
         file["archive"] = Absent, file'["archive"] = Absent, UNCHANGED <<tree, treeOf, staged, cut, changed>>,
         pc[p] \notin {"purge", "place"}
  PROVE  NothingDownloadedYet(p)' /\ StagedFromIt(p)' /\ TreeFromIt(p)' /\ HashedIsPinned(p)'
<1>1. ~ArchiveDiffers /\ ~ArchiveDiffers'
  BY DEF ArchiveDiffers
<1>2. NothingDownloadedYet(p)'
  BY DEF NothingDownloadedYet
<1>3. StagedFromIt(p)'
  BY <1>1 DEF Lone, StagedFromIt
<1>4. TreeFromIt(p)'
  BY <1>1 DEF Lone, TreeFromIt
<1>5. HashedIsPinned(p)'
  BY <1>1 DEF HashedIsPinned
<1> QED
  BY <1>2, <1>3, <1>4, <1>5

LEMMA LoneReceive == ASSUME NEW p \in Proc, IInv, Lone(p), Receive(p) PROVE Lone(p)'
<1> USE DEF IInv, Base, Lone
<1>1. /\ pc[p] = "stream" /\ fd[p] = "part" /\ pos[p] \in 0 .. N /\ pos[p] < N /\ N \in Nat
      /\ file["part"] \in Data /\ UNCHANGED <<tree, treeOf, fd, body, staged, pc, cut, changed>>
  BY FetchAssumption DEF Receive, PartIsReceived, Descriptors, TypeOK, history
<1>2. pos'[p] = pos[p] + 1
  BY DEF Receive, TypeOK
<1> DEFINE data == [file["part"] EXCEPT ![pos[p] + 1] = body[p]]
<1>3. file' = [file EXCEPT !["part"] = data]
  BY <1>1 DEF Receive
<1>4. \A b \in Block : b <= pos[p] + 1 => data[b] = body[p]
  <2>1. \A b \in Block : data[b] = IF b = pos[p] + 1 THEN body[p] ELSE file["part"][b]
    BY <1>1 DEF Data
  <2> QED
    BY <1>1, <2>1 DEF PartIsReceived, Block
<1> HIDE DEF data
<1>5. file'["part"] = data /\ file'["archive"] = file["archive"]
  BY <1>3 DEF TypeOK
<1>6. PartIsReceived(p)' /\ RenamesAMatch(p)'
  BY <1>1, <1>2, <1>4, <1>5 DEF PartIsReceived, RenamesAMatch
<1>7. file["archive"] = Absent
  BY <1>1 DEF NothingDownloadedYet
<1>8. NothingDownloadedYet(p)' /\ StagedFromIt(p)' /\ TreeFromIt(p)' /\ HashedIsPinned(p)'
  BY <1>1, <1>5, <1>7, LoneDownload
<1> QED
  BY <1>6, <1>8

LEMMA LoneConnect == ASSUME NEW p \in Proc, IInv, Lone(p), Connect(p) PROVE Lone(p)'
<1> USE DEF IInv, Base, Lone
<1>1. /\ pc[p] = "get" /\ pos'[p] = 0 /\ fd'[p] = "part" /\ pc'[p] = "stream"
      /\ file["archive"] = Absent /\ file'["archive"] = Absent /\ UNCHANGED <<tree, treeOf, staged, cut, changed>>
  BY DEF Connect, Goto, TypeOK, history
<1>2. \A b \in Block : ~(b <= 0)
  BY FetchAssumption DEF Block
<1>3. PartIsReceived(p)' /\ RenamesAMatch(p)'
  BY <1>1, <1>2 DEF PartIsReceived, RenamesAMatch
<1>4. NothingDownloadedYet(p)' /\ StagedFromIt(p)' /\ TreeFromIt(p)' /\ HashedIsPinned(p)'
  BY <1>1, LoneDownload
<1> QED
  BY <1>3, <1>4

LEMMA LoneMatches == ASSUME NEW p \in Proc, IInv, Lone(p), DownloadMatches(p) PROVE Lone(p)'
<1> USE DEF IInv, Base, Lone
<1>1. /\ pc[p] = "stream" /\ pc'[p] = "rename" /\ pos[p] = N /\ body[p] = "pinned"
      /\ UNCHANGED <<file, tree, treeOf, staged, cut, changed>>
  BY DEF DownloadMatches, Goto, TypeOK, disk, history
<1>2. Pinned(file["part"])
  <2>1. file["part"] \in Data
    BY <1>1 DEF PartIsReceived, Descriptors, TypeOK
  <2>2. \A b \in Block : b <= N
    BY FetchAssumption DEF Block
  <2>3. \A b \in Block : file["part"][b] = "pinned"
    BY <1>1, <2>2 DEF PartIsReceived
  <2> QED
    BY <2>1, <2>3 DEF Pinned, Data
<1>3. PartIsReceived(p)' /\ RenamesAMatch(p)'
  BY <1>1, <1>2 DEF PartIsReceived, RenamesAMatch, Pinned
<1>4. file["archive"] = Absent
  BY <1>1 DEF NothingDownloadedYet
<1>5. NothingDownloadedYet(p)' /\ StagedFromIt(p)' /\ TreeFromIt(p)' /\ HashedIsPinned(p)'
  BY <1>1, <1>4, LoneDownload
<1> QED
  BY <1>3, <1>5

LEMMA LoneDownloadEnds ==
  ASSUME NEW p \in Proc, IInv, Lone(p), DownloadFails(p) \/ DownloadDiffers(p) PROVE Lone(p)'
<1> USE DEF IInv, Base, Lone
<1>1. /\ pc[p] \in {"get", "stream"} /\ pc'[p] = "refused" /\ file'["archive"] = file["archive"]
      /\ file["archive"] = Absent /\ UNCHANGED <<tree, treeOf, staged, cut, changed>>
  BY DEF DownloadFails, DownloadDiffers, Unlinked, Goto, TypeOK, history, NothingDownloadedYet
<1>2. PartIsReceived(p)' /\ RenamesAMatch(p)'
  BY <1>1 DEF PartIsReceived, RenamesAMatch
<1>3. NothingDownloadedYet(p)' /\ StagedFromIt(p)' /\ TreeFromIt(p)' /\ HashedIsPinned(p)'
  BY <1>1, LoneDownload
<1> QED
  BY <1>2, <1>3

LEMMA LoneRename ==
  ASSUME NEW p \in Proc, IInv, Lone(p), Rename(p)
  PROVE  Lone(p)' /\ (pc'[p] = "look" => Pinned(file'["archive"]))
<1> USE DEF IInv, Base, Lone
<1>1. /\ pc[p] = "rename" /\ pc'[p] \in {"look", "refused"} /\ file["archive"] = Absent
      /\ UNCHANGED <<tree, treeOf, staged, cut, changed>>
  BY DEF Rename, Goto, TypeOK, history, NothingDownloadedYet
<1>2. PartIsReceived(p)' /\ RenamesAMatch(p)'
  BY <1>1 DEF PartIsReceived, RenamesAMatch
<1>3. CASE file["part"] = Absent
  <2>1. pc'[p] = "refused" /\ file' = file
    BY <1>3 DEF Rename, Goto, TypeOK
  <2>2. NothingDownloadedYet(p)' /\ StagedFromIt(p)' /\ TreeFromIt(p)' /\ HashedIsPinned(p)'
    BY <1>1, <2>1, LoneDownload
  <2> QED
    BY <1>2, <2>1, <2>2
<1>4. CASE file["part"] # Absent
  <2>1. pc'[p] = "look" /\ file'["archive"] = file["part"]
    BY <1>4 DEF Rename, Goto, TypeOK
  <2>2. Pinned(file["part"])
    BY <1>1, <1>4 DEF RenamesAMatch
  <2>3. Pinned(file'["archive"]) /\ ~ArchiveDiffers /\ ~ArchiveDiffers'
    BY <1>1, <2>1, <2>2 DEF ArchiveDiffers, Pinned
  <2>4. NothingDownloadedYet(p)' /\ StagedFromIt(p)' /\ TreeFromIt(p)' /\ HashedIsPinned(p)'
    BY <1>1, <2>1, <2>3 DEF NothingDownloadedYet, StagedFromIt, TreeFromIt, HashedIsPinned
  <2> QED
    BY <1>2, <2>3, <2>4
<1> QED
  BY <1>3, <1>4

LEMMA LoneDiscard == ASSUME NEW p \in Proc, IInv, Lone(p), Discard(p) PROVE Lone(p)'
<1> USE DEF IInv, Base, Lone
<1>1. /\ pc[p] = "discard" /\ UNCHANGED <<tree, treeOf, staged, cut, changed>>
      /\ file'["archive"] = Absent
      /\ \/ pc'[p] = "purge"
         \/ pc'[p] = "refused" /\ file["archive"] = Absent
  BY DEF Discard, Unlinked, Goto, TypeOK, history
<1>2. ~ArchiveDiffers'
  BY <1>1 DEF ArchiveDiffers
<1>3. PartIsReceived(p)' /\ RenamesAMatch(p)' /\ NothingDownloadedYet(p)'
  BY <1>1 DEF PartIsReceived, RenamesAMatch, NothingDownloadedYet
<1>4. StagedFromIt(p)' /\ HashedIsPinned(p)'
  BY <1>1, <1>2 DEF StagedFromIt, HashedIsPinned
<1>5. TreeFromIt(p)'
  BY <1>1, <1>2 DEF TreeFromIt, ArchiveDiffers
<1> QED
  BY <1>3, <1>4, <1>5

LEMMA LoneUnpack == ASSUME NEW p \in Proc, IInv, Lone(p), Unpack(p) PROVE Lone(p)'
<1> USE DEF IInv, Base, Lone
<1>1. /\ pc[p] = "unpack" /\ pc'[p] \in {"place", "refused"} /\ UNCHANGED <<file, tree, treeOf, cut, changed>>
      /\ staged'[p] = "moved" => pc'[p] = "place" /\ ArchiveDiffers
  BY DEF Unpack, Goto, TypeOK, disk, history, StagedFromIt, ArchiveDiffers
<1>2. ArchiveDiffers' = ArchiveDiffers
  BY <1>1 DEF ArchiveDiffers, Pinned
<1>3. PartIsReceived(p)' /\ RenamesAMatch(p)' /\ NothingDownloadedYet(p)'
  BY <1>1 DEF PartIsReceived, RenamesAMatch, NothingDownloadedYet
<1>4. StagedFromIt(p)' /\ TreeFromIt(p)' /\ HashedIsPinned(p)'
  BY <1>1, <1>2 DEF StagedFromIt, TreeFromIt, HashedIsPinned, Ended
<1> QED
  BY <1>3, <1>4

LEMMA LonePlace == ASSUME NEW p \in Proc, IInv, Lone(p), Place(p) PROVE Lone(p)'
<1> USE DEF IInv, Base, Lone
<1>1. /\ pc[p] = "place" /\ staged'[p] = "none" /\ UNCHANGED <<file, cut, changed>>
      /\ treeOf' = staged[p] \/ (treeOf' = treeOf /\ tree' = tree)
      /\ staged[p] \in {"pinned", "moved"}
  BY DEF Place, TypeOK, Body, Staging, history
<1>2. pc'[p] \in {"final", "refused"}
  BY DEF Place, Goto, TypeOK
<1>3. ArchiveDiffers' = ArchiveDiffers
  BY <1>1 DEF ArchiveDiffers, Pinned
<1>4. PartIsReceived(p)' /\ RenamesAMatch(p)' /\ NothingDownloadedYet(p)'
  BY <1>1, <1>2 DEF PartIsReceived, RenamesAMatch, NothingDownloadedYet
<1>5. StagedFromIt(p)' /\ HashedIsPinned(p)'
  BY <1>1, <1>2, <1>3 DEF StagedFromIt, HashedIsPinned, Ended
<1>6. TreeFromIt(p)'
  BY <1>1, <1>3 DEF TreeFromIt, StagedFromIt
<1> QED
  BY <1>4, <1>5, <1>6

LEMMA LoneKill == ASSUME NEW p \in Proc, IInv, Lone(p), Kill(p) PROVE Lone(p)'
<1> USE DEF IInv, Base, Lone
<1>1. /\ pc'[p] = "idle" /\ staged'[p] = "none" /\ UNCHANGED <<file, tree, treeOf, changed>>
      /\ cut' = (cut \/ pc[p] \in Removing)
  BY DEF Kill, Goto, TypeOK, disk
<1>2. ArchiveDiffers' = ArchiveDiffers
  BY <1>1 DEF ArchiveDiffers, Pinned
<1>3. PartIsReceived(p)' /\ RenamesAMatch(p)' /\ NothingDownloadedYet(p)'
  BY <1>1 DEF PartIsReceived, RenamesAMatch, NothingDownloadedYet
<1>4. StagedFromIt(p)' /\ HashedIsPinned(p)' /\ TreeFromIt(p)'
  BY <1>1, <1>2 DEF StagedFromIt, HashedIsPinned, TreeFromIt, Ended, Removing
<1> QED
  BY <1>3, <1>4

LEMMA LoneCheck == ASSUME NEW p \in Proc, IInv, Lone(p), CheckArchive(p) PROVE Lone(p)'
<1> USE DEF IInv, Base, Lone
<1>1. /\ pc[p] = "check" /\ pc'[p] \in {"discard", "get"} /\ UNCHANGED <<file, tree, treeOf, staged, cut>>
      /\ pc'[p] = "get" => ~ArchiveDiffers
  BY DEF CheckArchive, Goto, TypeOK, disk, ArchiveDiffers
<1>2. ArchiveDiffers' = ArchiveDiffers
  BY <1>1 DEF ArchiveDiffers, Pinned
<1>3. PartIsReceived(p)' /\ RenamesAMatch(p)' /\ NothingDownloadedYet(p)'
  BY <1>1 DEF PartIsReceived, RenamesAMatch, NothingDownloadedYet
<1>4. StagedFromIt(p)' /\ HashedIsPinned(p)' /\ TreeFromIt(p)'
  BY <1>1, <1>2 DEF StagedFromIt, HashedIsPinned, TreeFromIt
<1> QED
  BY <1>3, <1>4

LEMMA LoneRot == ASSUME NEW p \in Proc, IInv, Lone(p), Rot PROVE Lone(p)'
<1> USE DEF IInv, Base, Lone
<1>1. PICK data \in Data : file' = [file EXCEPT !["archive"] = data] /\ ~Pinned(data)
  BY RotLeaves
<1>2. /\ file["archive"] # Absent /\ changed' = Proc
      /\ UNCHANGED <<tree, treeOf, fd, pos, body, staged, pc, agrees, cut, kills, faults>>
  BY RotLeaves
<1>3. file'["archive"] = data /\ file'["part"] = file["part"]
  BY <1>1 DEF TypeOK
<1>4. ArchiveDiffers'
  BY <1>1, <1>3, PinnedData DEF ArchiveDiffers, Pinned
<1>5. PartIsReceived(p)' /\ RenamesAMatch(p)' /\ NothingDownloadedYet(p)'
  BY <1>2, <1>3 DEF PartIsReceived, RenamesAMatch, NothingDownloadedYet
<1>6. StagedFromIt(p)' /\ HashedIsPinned(p)' /\ TreeFromIt(p)'
  BY <1>2, <1>4 DEF StagedFromIt, HashedIsPinned, TreeFromIt
<1> QED
  BY <1>5, <1>6

\* Whoever is alone after a step was alone before it, and took it.
LEMMA AloneSteps ==
  ASSUME IInv, NEW p \in Proc, Alone(p)', Next
  PROVE  Alone(p) /\ (Rot \/ Start(p) \/ Step(p) \/ Kill(p))
<1>1. \A q \in Proc : pc[q] \in Control
  BY DEF IInv, Base, TypeOK
<1>2. ASSUME NEW q \in Proc, q # p, Start(q) \/ Step(q) \/ Kill(q) PROVE FALSE
  <2>1. pc'[q] = "away"
    BY <1>2 DEF Alone
  <2>2. CASE RemoveEntry(q) \/ Receive(q)
    BY <2>1, <2>2 DEF RemoveEntry, Receive, mine, Removing
  <2>3. CASE Place(q)
    BY <1>1, <2>1, <2>3 DEF Place, Goto, IInv, Base, TypeOK
  <2>4. CASE ~RemoveEntry(q) /\ ~Receive(q) /\ ~Place(q)
    BY <1>2, <2>1, <2>4 DEF Start, Step, Kill, CheckArchive, Discard, Removed, RemovedByAnother, HaveArchive, Connect,
       DownloadFails, DownloadMatches, DownloadDiffers, Rename, Look, Reuse, Unpack, Final, Goto, IInv, Base, TypeOK,
       Removing
  <2> QED
    BY <2>2, <2>3, <2>4
<1>3. CASE Rot
  BY <1>3 DEF Rot, mine, Alone
<1>4. CASE Start(p) \/ Step(p) \/ Kill(p)
  <2> SUFFICES ASSUME NEW q \in Proc, q # p, pc[q] # "away" PROVE FALSE
    BY <1>4 DEF Alone
  <2>1. pc'[q] = "away"
    BY DEF Alone
  <2>2. CASE RemoveEntry(p) \/ Receive(p)
    BY <2>1, <2>2 DEF RemoveEntry, Receive, mine
  <2>3. CASE Place(p)
    BY <1>1, <2>1, <2>3 DEF Place, Goto, IInv, Base, TypeOK
  <2>4. CASE ~RemoveEntry(p) /\ ~Receive(p) /\ ~Place(p)
    BY <1>4, <2>1, <2>4 DEF Start, Step, Kill, CheckArchive, Discard, Removed, RemovedByAnother, HaveArchive, Connect,
       DownloadFails, DownloadMatches, DownloadDiffers, Rename, Look, Reuse, Unpack, Final, Goto, IInv, Base, TypeOK
  <2> QED
    BY <2>2, <2>3, <2>4
<1> QED
  BY <1>2, <1>3, <1>4 DEF Next

\* Who is alone and goes on takes the step: another can only begin.
LEMMA AloneTakes ==
  ASSUME IInv, NEW p \in Proc, Alone(p), Next, pc'[p] # pc[p]
  PROVE  Rot \/ Start(p) \/ Step(p) \/ Kill(p)
<1> SUFFICES ASSUME NEW q \in Proc, q # p, Start(q) \/ Step(q) \/ Kill(q) PROVE FALSE
  BY DEF Next
<1>1. pc[q] = "away"
  BY DEF Alone
<1>2. Start(q)
  BY <1>1 DEF Step, Kill, CheckArchive, Discard, RemoveEntry, Removed, RemovedByAnother, HaveArchive, Connect, Receive,
     DownloadFails, DownloadMatches, DownloadDiffers, Rename, Look, Reuse, Unpack, Place, Final, Removing, Ended
<1> QED
  BY <1>2 DEF Start, Goto, IInv, Base, TypeOK

LEMMA LoneStep ==
  ASSUME NEW p \in Proc, IInv, Lone(p), Rot \/ Start(p) \/ Step(p) \/ Kill(p)
  PROVE  Lone(p)' /\ (pc[p] = "rename" /\ pc'[p] = "look" => Pinned(file'["archive"]))
<1>1. CASE \/ Receive(p) \/ Connect(p) \/ DownloadMatches(p) \/ DownloadFails(p) \/ DownloadDiffers(p)
           \/ Discard(p) \/ Unpack(p) \/ Place(p) \/ Kill(p) \/ CheckArchive(p) \/ Rot
  <2>1. Lone(p)'
    BY <1>1, LoneReceive, LoneConnect, LoneMatches, LoneDownloadEnds, LoneDiscard, LoneUnpack, LonePlace,
       LoneKill, LoneCheck, LoneRot
  <2>2. ~(pc[p] = "rename" /\ pc'[p] = "look")
    <3>1. CASE Rot \/ Receive(p)
      BY <3>1 DEF Rot, mine, Receive
    <3>2. CASE ~Rot /\ ~Receive(p)
      BY <1>1, <3>2 DEF Connect, DownloadMatches, DownloadFails, DownloadDiffers, Discard, Unpack, Place, Kill,
           CheckArchive, Goto, IInv, Base, TypeOK
    <3> QED
      BY <3>1, <3>2
  <2> QED
    BY <2>1, <2>2
<1>2. CASE Rename(p)
  BY <1>2, LoneRename
<1>3. CASE Start(p) \/ Removed(p) \/ RemovedByAnother(p) \/ HaveArchive(p) \/ Look(p) \/ Reuse(p) \/ Final(p)
  <2>1. UNCHANGED <<file, tree, treeOf, staged, cut, changed>>
    BY <1>3 DEF Start, Removed, RemovedByAnother, HaveArchive, Look, Reuse, Final, disk, history
  <2>2. /\ pc[p] \notin {"stream", "rename", "place"} /\ pc'[p] \notin {"stream", "rename"}
        /\ pc[p] = "purge" => tree = {}
        /\ pc[p] \in Ended \cup {"check", "discard"} => pc'[p] \in Ended \cup {"check"}
    BY <1>3 DEF Start, Removed, RemovedByAnother, HaveArchive, Look, Reuse, Final, Goto, IInv, Base, TypeOK,
         Ended, Removing
  <2>3. Lone(p)'
    BY <2>1, <2>2, LoneQuiet
  <2> QED
    BY <2>2, <2>3
<1>4. CASE RemoveEntry(p)
  <2>1. /\ pc[p] \in Removing /\ tree' \in SUBSET tree
        /\ UNCHANGED <<file, treeOf, staged, pc, cut, changed>>
    BY <1>4 DEF RemoveEntry, mine, history
  <2>2. Lone(p)'
    BY <2>1, LoneQuiet DEF Removing, Ended
  <2> QED
    BY <2>1, <2>2
<1> QED
  BY <1>1, <1>2, <1>3, <1>4 DEF Step

LoneInv == \A p \in Proc : Alone(p) => Lone(p)

LEMMA LoneInvariant == Spec => []LoneInv
<1>1. Init => LoneInv
  <2> SUFFICES ASSUME Init, NEW p \in Proc PROVE Lone(p)
    BY DEF LoneInv
  <2>1. ~ArchiveDiffers
    BY DEF Init, ArchiveDiffers, Pinned
  <2> QED
    BY <2>1 DEF Init, Lone, PartIsReceived, RenamesAMatch, NothingDownloadedYet, StagedFromIt, TreeFromIt,
                HashedIsPinned
<1>2. IInv /\ LoneInv /\ [Next]_vars => LoneInv'
  <2> SUFFICES ASSUME IInv, LoneInv, [Next]_vars, NEW p \in Proc, Alone(p)' PROVE Lone(p)'
    BY DEF LoneInv
  <2>1. CASE UNCHANGED vars
    <3>1. Alone(p) /\ Lone(p)
      BY <2>1 DEF vars, Alone, LoneInv
    <3> QED
      BY <2>1, <3>1 DEF vars, history, Lone, PartIsReceived, RenamesAMatch, NothingDownloadedYet, StagedFromIt, TreeFromIt,
             HashedIsPinned, ArchiveDiffers, Pinned
  <2>2. CASE Next
    BY <2>2, AloneSteps, LoneStep DEF LoneInv
  <2> QED
    BY <2>1, <2>2
<1> QED
  BY <1>1, <1>2, Invariant, PTL DEF Spec

\* A lone fetch renames to the archive's name the pinned bytes and no others, for
\* an archive of any length, however often it is killed and run again; and it is
\* lone as long as no other has ever run.
THEOREM LoneFetchRenamesAMatch == Spec => OnlyAMatchIsRenamed
<1>1. IInv /\ LoneInv /\ [Next]_vars
      => [\A p \in Proc :
            Alone(p) /\ pc[p] = "rename" /\ pc'[p] = "look" => Pinned(file'["archive"])]_vars
  <2> SUFFICES ASSUME IInv, LoneInv, Next, NEW p \in Proc, Alone(p), pc[p] = "rename", pc'[p] = "look"
               PROVE  Pinned(file'["archive"])
    BY DEF vars
  <2>1. Rot \/ Start(p) \/ Step(p) \/ Kill(p)
    BY AloneTakes
  <2> QED
    BY <2>1, LoneStep DEF LoneInv
<1> QED
  BY <1>1, LoneInvariant, Invariant, PTL DEF Spec, OnlyAMatchIsRenamed

\* Whoever comes to answer has looked at a tree that is there, and a lone fetch
\* whose archive did not change since it hashed it looks at no other archive's.
LEMMA AnswersStep ==
  ASSUME NEW p \in Proc, IInv, Lone(p), Rot \/ Start(p) \/ Step(p) \/ Kill(p),
         pc[p] # "done", pc'[p] = "done", p \notin changed, ~cut
  PROVE  treeOf = "pinned"
<1> USE DEF IInv, Base, Lone
<1>1. Reuse(p) \/ Final(p)
  <2>1. CASE Rot \/ RemoveEntry(p) \/ Receive(p)
    BY <2>1 DEF Rot, RemoveEntry, Receive, mine
  <2>2. CASE Place(p)
    BY <2>2 DEF Place, Goto, TypeOK
  <2>3. CASE ~Rot /\ ~RemoveEntry(p) /\ ~Receive(p) /\ ~Place(p)
    BY <2>3 DEF Next, Step, Start, Kill, CheckArchive, Discard, Removed, RemovedByAnother, HaveArchive, Connect,
         DownloadFails, DownloadMatches, DownloadDiffers, Rename, Look, Unpack, Goto, TypeOK, Removing
  <2> QED
    BY <2>1, <2>2, <2>3
<1>2. pc[p] \in {"cached", "final"} /\ "linkinfo" \in tree
  BY <1>1 DEF Reuse, Final, Linkinfo, Goto, TypeOK
<1>3. ~ArchiveDiffers
  BY <1>2 DEF HashedIsPinned, Ended
<1> QED
  BY <1>2, <1>3 DEF TreeFromIt

\* ... and answers the tree unpacked from them, for an archive of any length that
\* may change at any moment: what changes after the hash and before the answer is
\* the one exception within a run, and a removal that a kill interrupted the one
\* that outlives it.
THEOREM LoneFetchAnswersThePin == Spec => AnswersArePinned
<1>1. IInv /\ LoneInv /\ [Next]_vars
      => [\A p \in Proc :
            Alone(p) /\ pc[p] # "done" /\ pc'[p] = "done" /\ p \notin changed /\ ~cut => treeOf = "pinned"]_vars
  <2> SUFFICES ASSUME IInv, LoneInv, Next, NEW p \in Proc, Alone(p),
                      pc[p] # "done", pc'[p] = "done", p \notin changed, ~cut
               PROVE  treeOf = "pinned"
    BY DEF vars
  <2>1. Rot \/ Start(p) \/ Step(p) \/ Kill(p)
    BY AloneTakes
  <2> QED
    BY <2>1, AnswersStep DEF LoneInv
<1> QED
  BY <1>1, LoneInvariant, Invariant, PTL DEF Spec, AnswersArePinned
=============================================================================
