----------------------------- MODULE ToolOutput -----------------------------
(***************************************************************************)
(* What the read tools of a helper return: a page of a file, a listing,    *)
(* the output of a command, each cut by the limits of the broker and by    *)
(* the output boundary of the request.  A text is the sequence of its      *)
(* lines as split("\n") gives them: the empty text is <<"">>, and one that *)
(* ends with a line break has "" as its last line.  A helper reads a file  *)
(* page by page, from each to the next; a listing and the output of a      *)
(* command are one step.                                                   *)
(***************************************************************************)
EXTENDS Integers, Sequences

CONSTANTS Texts,        \* the files, and the outputs of commands
          Page,         \* the lines of one read: 500
          Starts, Ends, Lasts,   \* the startLine, endLine and lastLines asked for; 0 is none
          Boundaries,   \* the output boundaries: the limit (0 is none), the end kept, stderr, lines left out
          Fits          \* how many entries of a listing the limits let through

VARIABLES ask,     \* what is asked for
          bound,   \* the output boundary of the request
          pages,   \* what read_file returned so far
          answer,  \* what the listing or the command returned
          at
vars == <<ask, bound, pages, answer, at>>

OutputConstants ==
  /\ Page \in Nat \ {0} /\ Starts \cup Ends \cup Lasts \cup Fits \subseteq Nat
  /\ \A t \in Texts : Len(t) > 0
  /\ \A b \in Boundaries : /\ b.limit \in Nat /\ b.keep \in {"head", "tail"}
                           /\ b.stderr \in {"apart", "merge", "omit"}

Smaller(a, b) == IF a < b THEN a ELSE b
Larger(a, b) == IF a > b THEN a ELSE b
Front(s) == SubSeq(s, 1, Len(s) - 1)
Final(s) == s[Len(s)]

\* The lines of a text: its last line break ends the last of them.
LinesOf(t) == IF Final(t) = "" THEN Front(t) ELSE t
\* join("\n")
Joined(ls) == IF ls = << >> THEN <<"">> ELSE ls

-----------------------------------------------------------------------------
(* sliceBoundedValues, sliceBoundedText.                                   *)

Slice(s, b) ==
  IF b.limit = 0 THEN s
  ELSE IF b.keep = "head" THEN SubSeq(s, 1, Smaller(b.limit, Len(s)))
  ELSE SubSeq(s, Larger(1, Len(s) - b.limit + 1), Len(s))
SliceText(t, b) ==
  IF b.limit = 0 THEN [count |-> IF t = <<"">> THEN 0 ELSE Len(t), text |-> t]
  ELSE LET chosen == Slice(LinesOf(t), b)
       IN  [count |-> Len(chosen),
            text |-> IF Final(t) = "" /\ chosen # << >> THEN Append(chosen, "") ELSE Joined(chosen)]

\* Mutant: the number of the last line is that of the limit.
BoundPage_ByLimit(p) ==
  LET cut == SliceText(p.content, bound)
  IN  [p EXCEPT !.content = cut.text,
                !.start = IF bound.keep = "tail" THEN Larger(@, p.end - bound.limit + 1) ELSE @,
                !.end = IF bound.keep = "tail" THEN @ ELSE p.start + bound.limit - 1]
\* boundStructuredOutput: a page of a file, its lines numbered anew; the entries of a listing.
BoundPage(p) ==
  LET cut == SliceText(p.content, bound)
  IN  [p EXCEPT !.content = cut.text,
                !.start = IF bound.keep = "tail" THEN Larger(@, p.end - cut.count + 1) ELSE @,
                !.end = IF bound.keep = "tail" THEN @ ELSE Smaller(@, p.start + cut.count - 1)]
BoundListing(l) ==
  LET kept == Slice(l.entries, bound)
  IN  [entries |-> kept, truncated |-> l.truncated \/ Len(kept) < Len(l.entries)]

\* boundCommandOutput: stderr is put behind stdout or left out, then lines are dropped, then the rest is cut.
Merged(out, err) ==
  IF out = <<"">> THEN err ELSE IF err = <<"">> THEN out
  ELSE IF Final(out) = "" THEN Front(out) \o err ELSE out \o err
Filtered(t) ==
  IF bound.without = {} THEN t
  ELSE LET kept == SelectSeq(LinesOf(t), LAMBDA l : l \notin bound.without)
       IN  IF Final(t) = "" /\ Joined(kept) # <<"">> THEN Append(kept, "") ELSE Joined(kept)
BoundCommand(out, err) ==
  LET cut(t) == SliceText(Filtered(t), bound).text
  IN  [out |-> cut(IF bound.stderr = "merge" THEN Merged(out, err) ELSE out),
       err |-> cut(IF bound.stderr = "apart" THEN err ELSE <<"">>)]

-----------------------------------------------------------------------------
(* read_file: resolveUtilityReadRange, then the lines.  A range that is    *)
(* too long is cut and says where to go on, unless the request has fixed   *)
(* the range.                                                              *)

Refused == [refused |-> TRUE, content |-> <<"">>, start |-> 0, end |-> 0, next |-> 0]
Range(start, end, last, exact) ==
  LET n == Len(LinesOf(ask.file))
      from == IF last > 0 THEN Larger(1, n - last + 1) ELSE IF start = 0 THEN 1 ELSE start
      wanted == IF last > 0 \/ end = 0 THEN n ELSE end
      oversized == last = 0 /\ wanted - from + 1 > Page
      to == Smaller(IF oversized THEN from + Page - 1 ELSE wanted, n)
  IN  IF (last > 0 /\ (start > 0 \/ end > 0)) \/ last > Page \/ (oversized /\ exact) \/ (from > to /\ n > 0)
      THEN Refused
      ELSE [refused |-> FALSE, content |-> Joined(SubSeq(LinesOf(ask.file), from, to)), start |-> from,
            end |-> to, next |-> IF oversized /\ to < Smaller(wanted, n) THEN to + 1 ELSE 0]

Init ==
  /\ bound \in Boundaries
  /\ \/ ask \in [kind : {"read"}, file : Texts, start : Starts, end : Ends, last : Lasts, exact : BOOLEAN]
     \/ ask \in [kind : {"command"}, out : Texts, err : Texts]
     \/ ask \in [kind : {"list"}, entries : {LinesOf(t) : t \in Texts}, fits : Fits]
  /\ pages = << >> /\ answer = << >> /\ at = "asked"

\* The first page, and each after it.
Read ==
  /\ ask.kind = "read" /\ at = "asked"
  /\ LET p == IF pages = << >> THEN Range(ask.start, ask.end, ask.last, ask.exact)
              ELSE Range(Final(pages).next, ask.end, 0, ask.exact)
     IN  /\ pages' = Append(pages, IF p.refused THEN p ELSE BoundPage(p))
         /\ at' = IF p.next = 0 THEN "answered" ELSE "asked"
  /\ UNCHANGED <<ask, bound, answer>>

\* run_check and the git tools.
Command ==
  /\ ask.kind = "command" /\ at = "asked" /\ at' = "answered"
  /\ answer' = <<BoundCommand(ask.out, ask.err)>>
  /\ UNCHANGED <<ask, bound, pages>>

\* list_files: as many entries as the limits of number and size let through.
List ==
  /\ ask.kind = "list" /\ at = "asked" /\ at' = "answered"
  /\ LET shown == SubSeq(ask.entries, 1, Smaller(ask.fits, Len(ask.entries)))
     IN  answer' = <<BoundListing([entries |-> shown, truncated |-> Len(shown) < Len(ask.entries)])>>
  /\ UNCHANGED <<ask, bound, pages>>

Next == Read \/ Command \/ List
Spec == Init /\ [][Next]_vars

-----------------------------------------------------------------------------
TypeOK ==
  /\ at \in {"asked", "answered"} /\ bound \in Boundaries /\ ask.kind \in {"read", "command", "list"}
  /\ Len(answer) <= 1 /\ \A i \in DOMAIN pages : pages[i].refused \in BOOLEAN /\ pages[i].next \in Nat

\* A page or text that ends in a blank line is taken for one that ends with a line break, and loses it.
NoBlank(t) == \A i \in DOMAIN LinesOf(t) : LinesOf(t)[i] # ""
\* The lines a page carries.
Carried(p) == IF p.end < p.start THEN << >> ELSE p.content

(* The numbers a page gives are those of its lines in the file, whatever   *)
(* the boundary of the request cuts off at either end.                     *)
NumberedRight ==
  (ask.kind = "read" /\ NoBlank(ask.file)) =>
    \A i \in DOMAIN pages :
      pages[i].refused \/ Carried(pages[i]) = SubSeq(LinesOf(ask.file), pages[i].start, pages[i].end)

(* A helper that follows the pages gets every line it asked for, once and  *)
(* in order, and no page is longer than the limit.                         *)
PagesCover ==
  (ask.kind = "read" /\ NoBlank(ask.file) /\ bound.limit = 0) =>
    /\ \A i \in DOMAIN pages : pages[i].end - pages[i].start < Page
    /\ \A i \in 2 .. Len(pages) : ~pages[i].refused /\ pages[i].start = pages[i - 1].end + 1
    /\ (at = "answered" /\ ~pages[1].refused /\ ask.last = 0) =>
         LET n == Len(LinesOf(ask.file))
         IN  Final(pages).end = IF ask.end = 0 THEN n ELSE Smaller(ask.end, n)

(* The output of a command is cut after the lines were chosen and after    *)
(* stderr was put behind stdout: it holds the first or last lines of those *)
(* that are wanted.  A listing says when entries are missing.              *)
CutLast ==
  /\ (ask.kind = "command" /\ answer # << >> /\ NoBlank(ask.out) /\ NoBlank(ask.err)) =>
       LET both == IF bound.stderr = "merge" THEN LinesOf(ask.out) \o LinesOf(ask.err) ELSE LinesOf(ask.out)
       IN  LinesOf(answer[1].out) = Slice(SelectSeq(both, LAMBDA l : l \notin bound.without), bound)
  /\ (ask.kind = "list" /\ answer # << >>) =>
       (answer[1].truncated <=> Len(answer[1].entries) < Len(ask.entries))

\* What ToolOutput promises.
OutputKept == NumberedRight /\ PagesCover /\ CutLast

=============================================================================
