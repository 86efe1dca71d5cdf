-------------------------------- MODULE Diff --------------------------------
(***************************************************************************)
(* The diff of two files: Myers' search as diff/myers.ts records and       *)
(* retraces it, one edit distance at a time, and the hunks diff/hunks.ts   *)
(* makes of the edits.  A line is a letter; indices count from 0 as they   *)
(* do there, so line i of a file is file[i + 1].                           *)
(***************************************************************************)
EXTENDS Integers, Sequences, FiniteSetsExt

CONSTANTS
  Letters,          \* different lines
  MaxLines,         \* bound: lines of a file
  ContextLines      \* lines of context asked for; 0 means 3

ASSUME DiffAssumption == MaxLines \in Nat /\ ContextLines \subseteq Nat \ {0}

VARIABLES
  oldLines, newLines,   \* the files
  context,
  prefix, suffix,       \* lines trimmed
  frontier, trace,      \* v and its snapshots
  back,                 \* backtrack: the distance and the point it is at
  script,               \* edits of the middle, later all of them
  hunks,
  diffAt

diffVars == <<oldLines, newLines, context, prefix, suffix, frontier, trace, back, script, hunks, diffAt>>

File == UNION {[1 .. n -> Letters] : n \in 0 .. MaxLines}
LineEdit == [op : {"equal", "insert", "delete"}, oldIndex : Int, newIndex : Int]
Hunk == [start : Nat, end : Nat, oldStart : Nat, oldLines : Nat, newStart : Nat, newLines : Nat]

DiffTypeOK ==
  /\ oldLines \in Seq(Letters) /\ newLines \in Seq(Letters)
  /\ context \in Nat
  /\ prefix \in Nat /\ suffix \in Nat
  /\ frontier \in [DOMAIN frontier -> Int]
  /\ back \in [d : Int, x : Int, y : Int]
  /\ script \in Seq(LineEdit)
  /\ hunks \in Seq(Hunk)
  /\ diffAt \in {"trim", "search", "back", "group", "done"}

DiffInit ==
  /\ oldLines \in File /\ newLines \in File
  /\ context \in ContextLines
  /\ prefix = 0 /\ suffix = 0
  /\ frontier = [k \in {} |-> 0]
  /\ trace = <<>>
  /\ back = [d |-> 0, x |-> 0, y |-> 0]
  /\ script = <<>>
  /\ hunks = <<>>
  /\ diffAt = "trim"

\* The middles: a and b.
OldMiddle == SubSeq(oldLines, prefix + 1, Len(oldLines) - suffix)
NewMiddle == SubSeq(newLines, prefix + 1, Len(newLines) - suffix)
MaxDistance == Len(OldMiddle) + Len(NewMiddle)

Equal(i, j) == [op |-> "equal", oldIndex |-> i, newIndex |-> j]
Insert(j) == [op |-> "insert", oldIndex |-> -1, newIndex |-> j]
Delete(i) == [op |-> "delete", oldIndex |-> i, newIndex |-> -1]

Alike(n) == \A i \in 1 .. n : oldLines[i] = newLines[i]
AlikeAtEnd(n) == \A i \in 0 .. n - 1 : oldLines[Len(oldLines) - i] = newLines[Len(newLines) - i]
Shorter == Min({Len(oldLines), Len(newLines)})

\* diffLines trims, and diffCore answers at once when a side is empty.
Trims ==
  /\ diffAt = "trim"
  /\ prefix' = Max({n \in 0 .. Shorter : Alike(n)})
  /\ suffix' = Max({n \in 0 .. Shorter - prefix' : AlikeAtEnd(n)})
  /\ LET n == Len(oldLines) - prefix' - suffix'
         m == Len(newLines) - prefix' - suffix'
     IN  /\ script' = CASE n = 0 -> [j \in 1 .. m |-> Insert(prefix' + j - 1)]
                        [] m = 0 /\ n # 0 -> [i \in 1 .. n |-> Delete(prefix' + i - 1)]
                        [] OTHER -> <<>>
         /\ diffAt' = IF n = 0 \/ m = 0 THEN "group" ELSE "search"
         /\ frontier' = [k \in -(n + m) .. n + m |-> 0]
  /\ UNCHANGED <<oldLines, newLines, context, trace, back, hunks>>

Down(v, d, k) == k = -d \/ (k # d /\ v[k - 1] < v[k + 1])

\* As far as identical lines take it.
Slide(x, y) ==
  x + Max({t \in 0 .. MaxDistance :
             \A s \in 1 .. t : /\ x + s <= Len(OldMiddle) /\ y + s <= Len(NewMiddle)
                               /\ OldMiddle[x + s] = NewMiddle[y + s]})

Reached(v, d, k) ==
  LET x == IF Down(v, d, k) THEN v[k + 1] ELSE v[k - 1] + 1 IN Slide(x, x - k)

Diagonals(d) == {k \in -d .. d : (k + d) % 2 = 0}
AtEnd(v, k) == v[k] >= Len(OldMiddle) /\ v[k] - k >= Len(NewMiddle)

\* One turn of the loop over d.  A turn reads the diagonals of the other parity only,
\* so all of its own are computed at once.
Searches ==
  /\ diffAt = "search"
  /\ LET d == Len(trace)
         v == [k \in DOMAIN frontier |-> IF k \in Diagonals(d) THEN Reached(frontier, d, k) ELSE frontier[k]]
     IN  /\ frontier' = v
         /\ trace' = Append(trace, frontier)
         /\ IF \E k \in Diagonals(d) : AtEnd(v, k)
            THEN diffAt' = "back" /\ back' = [d |-> d, x |-> Len(OldMiddle), y |-> Len(NewMiddle)]
            ELSE UNCHANGED <<diffAt, back>>
  /\ UNCHANGED <<oldLines, newLines, context, prefix, suffix, script, hunks>>

\* One turn of backtrack: the diagonal run, and the edit before it.
Backtracks ==
  /\ diffAt = "back"
  /\ LET d == back.d
         k == back.x - back.y
         v == trace[d + 1]
         down == Down(v, d, k)
         fromX == v[IF down THEN k + 1 ELSE k - 1]
         fromY == fromX - (IF down THEN k + 1 ELSE k - 1)
         run == Max({0, Min({back.x - fromX, back.y - fromY})})
         x == back.x - run
         y == back.y - run
         diagonal == [i \in 1 .. run |-> Equal(prefix + x + i - 1, prefix + y + i - 1)]
         step == IF d = 0 THEN <<>>
                 ELSE IF down THEN <<Insert(prefix + y - 1)>> ELSE <<Delete(prefix + x - 1)>>
     IN  /\ script' = step \o diagonal \o script
         /\ back' = [d |-> d - 1, x |-> IF d = 0 \/ down THEN x ELSE x - 1,
                     y |-> IF d # 0 /\ down THEN y - 1 ELSE y]
         /\ diffAt' = IF d = 0 \/ (back'.x = 0 /\ back'.y = 0) THEN "group" ELSE "back"
  /\ UNCHANGED <<oldLines, newLines, context, prefix, suffix, frontier, trace, hunks>>

\* The trimmed ends around the middle.
WholeScript ==
  [i \in 1 .. prefix |-> Equal(i - 1, i - 1)] \o script
    \o [i \in 1 .. suffix |-> Equal(Len(oldLines) - suffix + i - 1, Len(newLines) - suffix + i - 1)]

IsChange(e) == e.op # "equal"

MutantWidens(edits, ranges, index) ==
  LET start == Max({0, index - context})
      end == Min({Len(edits) - 1, index + context})
      n == Len(ranges)
  IN  IF n > 0 /\ start <= ranges[n].end
      THEN [ranges EXCEPT ![n].end = Max({@, end})]
      ELSE Append(ranges, [start |-> start, end |-> end])

\* Ranges of edits, from 0; a window that touches the last range is merged into it.
Widens(edits, ranges, index) ==
  LET start == Max({0, index - context})
      end == Min({Len(edits) - 1, index + context})
      n == Len(ranges)
  IN  IF n > 0 /\ start <= ranges[n].end + 1
      THEN [ranges EXCEPT ![n].end = Max({@, end})]
      ELSE Append(ranges, [start |-> start, end |-> end])

\* The ranges of all changes: upTo[n] has those of the first n edits.
Ranges(edits) ==
  LET upTo[n \in 0 .. Len(edits)] ==
        IF n = 0 THEN <<>>
        ELSE IF IsChange(edits[n]) THEN Widens(edits, upTo[n - 1], n - 1) ELSE upTo[n - 1]
  IN  upTo[Len(edits)]

\* Numbers of the lines in a range, from 1; the side an edit has no line on gives none.
OldNumbers(edits, range) == {edits[i + 1].oldIndex + 1 : i \in range.start .. range.end} \ {0}
NewNumbers(edits, range) == {edits[i + 1].newIndex + 1 : i \in range.start .. range.end} \ {0}
First(lines) == IF lines = {} THEN 0 ELSE Min(lines)
HunkOf(edits, range) ==
  LET olds == OldNumbers(edits, range)
      news == NewNumbers(edits, range)
  IN  [start |-> range.start, end |-> range.end,
       oldStart |-> First(olds), oldLines |-> Cardinality(olds),
       newStart |-> First(news), newLines |-> Cardinality(news)]

\* buildHunks.
Groups ==
  /\ diffAt = "group"
  /\ script' = WholeScript
  /\ hunks' = LET ranges == Ranges(WholeScript) IN [i \in DOMAIN ranges |-> HunkOf(WholeScript, ranges[i])]
  /\ diffAt' = "done"
  /\ UNCHANGED <<oldLines, newLines, context, prefix, suffix, frontier, trace, back>>

DiffNext == Trims \/ Searches \/ Backtracks \/ Groups

DiffSpec == DiffInit /\ [][DiffNext]_diffVars

-----------------------------------------------------------------------------
(***************************************************************************)
(* Properties.                                                             *)
(***************************************************************************)

\* Reference: the common subsequences, as pairs of lines that are the same, in the
\* same order on both sides.
Matches == {pair \in (1 .. Len(oldLines)) \X (1 .. Len(newLines)) : oldLines[pair[1]] = newLines[pair[2]]}
InOrder(pairs) == \A p, q \in pairs : p = q \/ (p[1] < q[1] /\ p[2] < q[2]) \/ (q[1] < p[1] /\ q[2] < p[2])

\* Lines that the first i edits go through: old ones if op is "insert", new ones if
\* it is "delete".
Passed(i, op) == Cardinality({j \in 1 .. i : script[j].op # op})
Kept == Cardinality({i \in DOMAIN script : script[i].op = "equal"})

\* The edits go through both files line by line and keep only lines that are the same,
\* as many as any common subsequence has.
ScriptIsShortest ==
  /\ Passed(Len(script), "insert") = Len(oldLines)
  /\ Passed(Len(script), "delete") = Len(newLines)
  /\ \A i \in DOMAIN script :
       /\ script[i].op # "insert" => script[i].oldIndex = Passed(i - 1, "insert")
       /\ script[i].op # "delete" => script[i].newIndex = Passed(i - 1, "delete")
       /\ script[i].op = "equal" => oldLines[script[i].oldIndex + 1] = newLines[script[i].newIndex + 1]
  /\ \A pairs \in SUBSET Matches : InOrder(pairs) => Cardinality(pairs) <= Kept

StartIsRight(start, count, before) == start = IF count = 0 THEN before ELSE before + 1

\* A hunk says where it stands as git does, every change is in one, and so is its
\* context; two hunks do not touch.
HunksAreRight ==
  /\ \A i \in DOMAIN script : IsChange(script[i]) =>
       \E h \in Range(hunks) :
         h.start <= Max({0, i - 1 - context}) /\ Min({Len(script) - 1, i - 1 + context}) <= h.end
  /\ \A i \in 1 .. Len(hunks) - 1 : hunks[i].end + 1 < hunks[i + 1].start
  /\ \A h \in Range(hunks) :
       /\ StartIsRight(h.oldStart, h.oldLines, Passed(h.start, "insert"))
       /\ StartIsRight(h.newStart, h.newLines, Passed(h.start, "delete"))

\* test/unit/diff-vs-git.test.ts compares one diff with git's.  Of all of them, this says
\* what does not depend on which of several shortest scripts git would choose.
DiffIsRight == diffAt = "done" => ScriptIsShortest /\ HunksAreRight
=============================================================================
