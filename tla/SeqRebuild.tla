----------------------------- MODULE SeqRebuild -----------------------------
(***************************************************************************)
(* The files of a sequential index on a primary key, step by step, under   *)
(* processes that end at any moment: createFile, the two writes of an add  *)
(* and of a remove, and the rebuild, which writes three files beside the   *)
(* old ones and then removes and renames them one after the other.  The    *)
(* next process finds the directory and goes on with what is in it.        *)
(*                                                                         *)
(* What an operation computes is taken from SeqIndex, whose calls run to   *)
(* their end.  The index has no duplicates, so of the three `.new' files   *)
(* only that of the index ever has anything in it.  A closed file outlives *)
(* the process; the index is smaller than the buffer of a stream, so what  *)
(* was written reaches a file when its stream seeks or is closed.          *)
(***************************************************************************)
EXTENDS Integers, FiniteSets, SequencesExt

CONSTANTS
  Key,         \* keys, integers
  MaxRecords,  \* bound: records in the three files
  MaxEnds      \* bound: processes that end inside a call

ASSUME RebuildAssumption == Key \subseteq Int /\ MaxRecords \in Nat /\ MaxEnds \in Nat

VARIABLES
  present,   \* disk: which of the three files exist
  headed,    \* disk: the index file has its header
  disk,      \* disk: their contents, as in SeqIndex; empty for a missing file
  leftover,  \* disk: what index.new has in it, one index after the other
  mixed,     \* disk: the index file was once an index.new with more than one
  pc,        \* where the process is, "idle" between calls
  removal,   \* whether the call under way is a remove
  ends,      \* processes that ended inside a call so far
  reply,     \* outcome of the last call that returned
  want,      \* history: the keys added and not removed since
  past,      \* history: `want' when the first part of index.new was written
  cut,       \* history: a remove unlinked its record and did not replace the file
  torn       \* history: the key of a remove that ended between its two files

files == <<present, headed, disk, leftover, mixed>>
history == <<want, past, cut, torn>>
vars == <<files, pc, removal, ends, reply, history>>

PK == TRUE
Files == INSTANCE SeqIndex WITH MaxPerKey <- 2, MaxRecords <- [b \in BOOLEAN |-> MaxRecords],
                                MaxAux <- 0, Bulks <- {}

Raw(k) == <<k, 1>>
NoFiles == [hdr |-> Files!Nil, index |-> <<>>, aux |-> <<>>, dups |-> <<>>]
AllFiles == {"index", "aux", "dups"}

TypeOK == /\ present \subseteq AllFiles
          /\ disk.hdr \in Files!Pointer /\ disk.dups = <<>>
          /\ disk.index \in Seq(Files!Entry) /\ disk.aux \in Seq(Files!Entry)
          /\ reply \in {"none", "ok", "duplicate", "absent", "throws"}
          /\ \A i \in 1..Len(leftover) :
               leftover[i].aux = <<>> /\ leftover[i].index \in Seq(Files!Entry)
          /\ mixed \in BOOLEAN /\ removal \in BOOLEAN /\ cut \in BOOLEAN
          /\ headed \in BOOLEAN /\ torn \subseteq Key
          /\ pc \in {"new", "make_index", "make_header", "make_aux", "make_dups", "idle", "write",
                     "remove_index", "rename_index", "remove_aux", "rename_aux",
                     "remove_dups", "rename_dups"}
          /\ ends \in 0..MaxEnds
          /\ want \subseteq Key /\ past \subseteq Key

\* There is no directory.
Init == /\ present = {} /\ disk = NoFiles /\ leftover = <<>> /\ mixed = FALSE
        /\ pc = "new" /\ removal = FALSE /\ ends = 0 /\ reply = "none"
        /\ headed = FALSE /\ want = {} /\ past = {} /\ cut = FALSE /\ torn = {}

Step(from, to) == pc = from /\ pc' = to

-----------------------------------------------------------------------------
(* The constructor creates the files only when there is no directory.       *)

MakeDirectory == /\ Step("new", "make_index")
                 /\ UNCHANGED <<files, removal, ends, reply, history>>

MakeFile(f, from, to) ==
  /\ Step(from, to)
  /\ present' = present \union {f}
  /\ UNCHANGED <<headed, disk, leftover, mixed, removal, ends, reply, history>>

\* The header is in the index file when that is closed.
MakeHeader ==
  /\ Step("make_header", "make_aux")
  /\ headed' = TRUE
  /\ UNCHANGED <<present, disk, leftover, mixed, removal, ends, reply, history>>

Construct == \/ MakeDirectory
             \/ MakeFile("index", "make_index", "make_header")
             \/ MakeHeader
             \/ MakeFile("aux", "make_aux", "make_dups")
             \/ MakeFile("dups", "make_dups", "idle")

-----------------------------------------------------------------------------
(* add and remove up to the rebuild.  What they do to an index file of two   *)
(* parts, or to one whose chain a removal has left or broken, is not         *)
(* modelled, nor the calls that SeqIndex shows to be defective.              *)

Damaged == mixed \/ cut \/ torn # {}
Calls == pc = "idle" /\ ~ Damaged

Search(k) == Files!BinarySearch(disk, k)
Returns(outcome) == reply' = outcome /\ UNCHANGED <<pc, removal>>

\* rebuild opens the three files before it creates the new ones.
EntersRebuild(isRemoval) ==
  IF present = AllFiles THEN pc' = "write" /\ removal' = isRemoval /\ UNCHANGED reply
  ELSE Returns("throws")

\* Without an index file every call throws.  Without an overflow file only a
\* search that ends in the index file is answered.  An index file of no bytes has
\* no other file beside it.
Fails(k) == \/ "index" \notin present \/ ~ headed
            \/ "aux" \notin present /\ Search(k).location \notin {"REC_CUR", "EMPTY_FILE"}

\* validNumberRecords counts the records of two files, and throws without them.
Add(k) ==
  LET a == Files!Added(disk, k, Raw(k))
  IN  /\ Calls /\ Files!KeepsHeaderOverflow(k) /\ Files!NumRecords < MaxRecords
      /\ IF Fails(k) THEN Returns("throws") /\ UNCHANGED <<disk, want>>
         ELSE IF a.outcome = "duplicate" THEN Returns("duplicate") /\ UNCHANGED <<disk, want>>
         ELSE /\ disk' = a.disk
              /\ want' = want \union {k}
              /\ IF "aux" \in present /\ Files!ValidNumberRecords(a.disk)
                 THEN Returns("ok") ELSE EntersRebuild(FALSE)
      /\ UNCHANGED <<present, headed, leftover, mixed, ends, past, cut, torn>>

\* The process ends when the record is in the overflow file and nothing points
\* to it.
AddEnds(k) ==
  /\ Calls /\ ends < MaxEnds /\ Files!KeepsHeaderOverflow(k) /\ Files!NumRecords < MaxRecords
  /\ ~ Fails(k) /\ Search(k).location # "EMPTY_FILE"
  /\ Files!Added(disk, k, Raw(k)).outcome = "ok"
  /\ disk' = [disk EXCEPT !.aux = Append(@, Last(Files!Added(disk, k, Raw(k)).disk.aux))]
  /\ ends' = ends + 1
  /\ UNCHANGED <<present, headed, leftover, mixed, pc, removal, reply, history>>

\* Mutant: a removal rebuilds only when the overflow file has grown too long.
RebuildsWhenLong(d) == IF Files!ValidNumberRecords(d) THEN Returns("ok") ELSE EntersRebuild(TRUE)

RebuildsAfter(d) == EntersRebuild(TRUE)

\* Of an index file of no bytes nothing can be read: erase compares the key with
\* variables that were never set, and what it writes is lost.
RemoveFails == \/ Returns("throws")
               \/ "index" \in present /\ ~ headed /\ Returns("absent")

RemoveKey(k) ==
  LET e == Files!Erased(disk, k)
  IN  /\ Calls /\ Files!NotInHeaderOverflow(k) /\ Files!NotMisread(k)
      /\ IF Fails(k) THEN RemoveFails /\ UNCHANGED <<disk, want, cut>>
         ELSE IF e.outcome = "absent" THEN Returns("absent") /\ UNCHANGED <<disk, want, cut>>
         ELSE /\ disk' = e.disk
              /\ want' = want \ {k}
              /\ RebuildsAfter(e.disk)
              /\ cut' = (present # AllFiles)
      /\ UNCHANGED <<present, headed, leftover, mixed, ends, past, torn>>

\* erase writes the record that points to the removed one, and the removed one, which
\* becomes an end of the chain.  In one file they are written in this order, and a
\* process that ends in between is one that ends before the rebuild.  When one of them
\* is in the index file and the other in the overflow file, the stream of the removed
\* one is closed first, and the process may end before the other is.  The first record
\* of the index file, behind overflow records, is not written.
Points(q, p) == Files!NextOf(disk, q) = p
RemoveEnds(k) ==
  LET chain == ToSet(Files!Chain(disk, disk.hdr))
  IN  /\ Calls /\ ends < MaxEnds /\ Files!NotInHeaderOverflow(k) /\ ~ Fails(k)
      /\ \E p \in chain \ {Files!InIndex(1)} : \E q \in chain :
           /\ Files!Rec(disk, p).data = k /\ Points(q, p) /\ q.file # p.file
           /\ disk' = Files!SetNext(disk, p, Files!Nil)
      /\ torn' = {k}
      /\ ends' = ends + 1
      /\ UNCHANGED <<present, headed, leftover, mixed, pc, removal, reply, want, past, cut>>

-----------------------------------------------------------------------------
(* rebuild.                                                                 *)

\* Mutants: the overflow records are not copied; they are copied and kept; the
\* file is opened without being emptied and written from its beginning.
CopyOfIndexOnly == Append(leftover, Files!Rebuilt([disk EXCEPT !.hdr = Files!Nil]))
CopyKeepsOverflow == Append(leftover, [Files!Rebuilt(disk) EXCEPT !.aux = disk.aux])
WrittenOver == <<Files!Rebuilt(disk)>> \o leftover

\* The new index is written behind whatever an earlier process left in index.new
\* (ios::app), with the positions it would have in an empty file.
Written == Append(leftover, Files!Rebuilt(disk))

WriteNew == /\ Step("write", "remove_index")
            /\ leftover' = Written
            /\ past' = IF leftover = <<>> THEN want ELSE past
            /\ UNCHANGED <<present, headed, disk, mixed, removal, ends, reply, want, cut, torn>>

RemoveIndex == /\ Step("remove_index", "rename_index")
               /\ present' = present \ {"index"}
               /\ disk' = [disk EXCEPT !.hdr = Files!Nil, !.index = <<>>]
               /\ UNCHANGED <<headed, leftover, mixed, removal, ends, reply, history>>

\* The header of the file is that of its first part, and so is the chain.
RenameIndex == /\ Step("rename_index", "remove_aux")
               /\ present' = present \union {"index"}
               /\ disk' = [disk EXCEPT !.hdr = Head(leftover).hdr, !.index = Head(leftover).index]
               /\ mixed' = (Len(leftover) > 1)
               /\ leftover' = <<>>
               /\ UNCHANGED <<headed, removal, ends, reply, history>>

\* Mutant: the overflow file stays, and the call goes on as if it were the new one.
KeepAux == /\ Step("remove_aux", "remove_dups")
           /\ UNCHANGED <<files, removal, ends, reply, history>>

RemoveAux == /\ Step("remove_aux", "rename_aux")
             /\ present' = present \ {"aux"}
             /\ disk' = [disk EXCEPT !.aux = <<>>]
             /\ UNCHANGED <<headed, leftover, mixed, removal, ends, reply, history>>

RenameAux == /\ Step("rename_aux", "remove_dups")
             /\ present' = present \union {"aux"}
             /\ UNCHANGED <<headed, disk, leftover, mixed, removal, ends, reply, history>>

RemoveDups == /\ Step("remove_dups", "rename_dups")
              /\ present' = present \ {"dups"}
              /\ UNCHANGED <<headed, disk, leftover, mixed, removal, ends, reply, history>>

RenameDups == /\ Step("rename_dups", "idle")
              /\ present' = present \union {"dups"}
              /\ reply' = "ok"
              /\ removal' = FALSE
              /\ UNCHANGED <<headed, disk, leftover, mixed, ends, history>>

Rebuild == WriteNew \/ RemoveIndex \/ RenameIndex \/ RemoveAux \/ RenameAux
             \/ RemoveDups \/ RenameDups

-----------------------------------------------------------------------------
\* The process ends inside a constructor or a rebuild.  The constructor of the
\* next one finds the directory and creates nothing.
ProcessEnds == /\ pc \notin {"new", "idle"} /\ ends < MaxEnds
               /\ pc' = "idle" /\ removal' = FALSE
               /\ ends' = ends + 1
               /\ cut' = (cut \/ (removal /\ pc \in {"write", "remove_index"}))
               /\ UNCHANGED <<files, reply, want, past, torn>>

Next == \/ Construct \/ Rebuild \/ ProcessEnds
        \/ \E k \in Key : Add(k) \/ AddEnds(k) \/ RemoveKey(k) \/ RemoveEnds(k)

Spec == Init /\ [][Next]_vars

-----------------------------------------------------------------------------
(* What survives.                                                           *)

Kept(d) == {Files!Rec(d, p).data : p \in ToSet(Files!Chain(d, d.hdr))}

\* Wherever a process ends, between the two writes of an add or of a remove or
\* between two file-system calls of a rebuild, every key that was added, and no key
\* that was removed, is in the chain of the index file; when the index file is missing,
\* in the chain that was written last into index.new.  Only a remove that ends between
\* its writes to two files takes keys out of the chain: those above the one that it was
\* to remove.
NothingLost ==
  ~ mixed => Kept(IF "index" \in present THEN disk
                  ELSE IF leftover = <<>> THEN NoFiles ELSE Last(leftover))
               = {j \in want : \A k \in torn : j <= k}

\* An index.new that an earlier process left is never taken for a new one in part:
\* the chain of the file that a rebuild makes of it is the index as it was when
\* the earlier rebuild wrote it, not a blend of the two.
ShowsOneMoment == mixed => Kept(disk) = past

\* Between calls search and range_search, when they do not throw because a file is
\* missing, answer with the keys that were added and not removed, even beside an
\* overflow file of the time before the last rebuild, or with records in it that
\* nothing points to.
AnswersAgree ==
  Calls /\ "index" \in present /\ headed =>
    /\ \A k \in Key : Files!Search(disk, k) = {Raw(j) : j \in want \intersect {k}}
    /\ \A begin, end \in Key :
         Files!RangeSearch(disk, begin, end) = {Raw(j) : j \in want \intersect begin..end}

\* While no process has ended inside a call, the steps of an add or a remove make
\* the operation of SeqIndex, which takes effect when the record is linked or
\* unlinked.
DiskAfter ==
  CASE pc = "write" -> Files!Rebuilt(disk)
    [] pc \in {"remove_index", "rename_index"} -> Head(leftover)
    [] pc \in {"remove_aux", "rename_aux"} -> [disk EXCEPT !.aux = <<>>]
    [] OTHER -> disk
ReplyAfter == IF pc \in {"write", "remove_index", "rename_index", "remove_aux", "rename_aux",
                         "remove_dups", "rename_dups"} THEN "ok" ELSE reply

Whole == INSTANCE SeqIndex WITH MaxPerKey <- 2, MaxRecords <- [b \in BOOLEAN |-> MaxRecords],
                                MaxAux <- 0, Bulks <- {}, disk <- DiskAfter, reply <- ReplyAfter

WholeCallOrStutter == Whole!CarefulNext \/ UNCHANGED Whole!vars
ImplementsSeqIndex == [][ends' = 0 => WholeCallOrStutter]_vars
=============================================================================
