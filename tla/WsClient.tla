-------------------------------- MODULE WsClient --------------------------------
(***************************************************************************)
(* The websocket client over a raw socket (ws-client.ts).  The bytes of    *)
(* the HTTP answer and of the frames come in chunks that are cut anywhere; *)
(* here each of them is two pieces.  A chunk is handled to its end, then   *)
(* the microtasks, among them the caller's, who learns of the client by a  *)
(* promise and only then listens.  Frames may come with the HTTP answer.   *)
(***************************************************************************)
EXTENDS Naturals, Sequences, FiniteSets, SequencesExt, FiniteSetsExt

CONSTANTS Scripts,   \* what a server may send: sequences of frames
          Awaits     \* the promises between that of connectWs and the caller

VARIABLES conf,      \* the script, whether the upgrade is granted, the awaits; fixed
          phase,
          came,      \* pieces received
          buffer,    \* those not taken yet: of the HTTP answer (frame 0), then of frames
          queue,     \* microtasks
          running,   \* processFrames is in its loop
          listening, \* the caller has set its handlers
          frag,      \* the message that is being put together: its opcode and its frames
          early,     \* frames that came whole with the HTTP answer
          heard,     \* the messages handed over, and whether anybody listened
          wrote, closed, ended,
          told       \* onclose was called
vars == <<conf, phase, came, buffer, queue, running, listening, frag, early, heard, wrote, closed, ended, told>>

FrameType == [op : {"text", "binary", "cont", "close", "ping", "pong", "other"}, fin : BOOLEAN, big : BOOLEAN]
SocketConstants ==
  /\ \A s \in Scripts : \A i \in DOMAIN s : s[i] \in FrameType
  /\ Awaits \subseteq Nat

None == [op |-> "none", parts |-> << >>]
Control == {"close", "ping", "pong"}

Init ==
  /\ conf \in [script : Scripts, ok : BOOLEAN, awaits : Awaits]
  /\ phase = "opening" /\ came = 0 /\ buffer = << >> /\ queue = << >>
  /\ running = FALSE /\ listening = FALSE /\ frag = None /\ early = 0 /\ heard = << >>
  /\ wrote = << >> /\ closed = FALSE /\ ended = FALSE /\ told = FALSE

\* The stream: two pieces of the HTTP answer, two of each frame.
Piece(n) == [frame |-> (n - 1) \div 2, last |-> n % 2 = 0]
StreamLength == 2 * (Len(conf.script) + 1)
Ready == ~running /\ queue = << >> /\ ~ended

-----------------------------------------------------------------------------
(* The socket.                                                             *)

\* Mutant: what comes behind the HTTP answer is thrown away with it.
Remaining_Dropped(pieces) == << >>
\* What comes behind the HTTP answer.
Remaining(pieces) == SubSeq(pieces, 3, Len(pieces))
\* connectWs (data): resolve(client) first, then processFrames as a microtask.
Chunk(n) ==
  LET pieces == buffer \o [k \in 1..n |-> Piece(came + k)]
      rest == Remaining(pieces)
  IN  /\ Ready /\ came + n <= StreamLength /\ came' = came + n
      /\ CASE phase = "open" ->
                buffer' = pieces /\ running' = TRUE /\ UNCHANGED <<phase, queue, early>>
           [] phase = "opening" /\ Len(pieces) >= 2 /\ conf.ok ->
                /\ phase' = "open" /\ buffer' = rest /\ early' = Len(rest) \div 2
                /\ queue' = <<[task |-> "await", left |-> conf.awaits]>>
                            \o IF rest # << >> THEN <<[task |-> "frames", left |-> 0]>> ELSE << >>
                /\ UNCHANGED running
           [] OTHER ->
                /\ phase' = IF Len(pieces) >= 2 THEN "refused" ELSE phase
                /\ buffer' = pieces /\ UNCHANGED <<queue, running, early>>
      /\ UNCHANGED <<conf, listening, frag, heard, wrote, closed, ended, told>>

\* connectWs (close, error): before the upgrade the promise is rejected.
SocketEnds ==
  /\ Ready /\ ended' = TRUE
  /\ IF phase = "open" THEN closed' = TRUE /\ told' = listening /\ UNCHANGED phase
     ELSE phase' = "refused" /\ UNCHANGED <<closed, told>>
  /\ UNCHANGED <<conf, came, buffer, queue, running, listening, frag, early, heard, wrote>>

-----------------------------------------------------------------------------
(* Microtasks, and the caller.                                             *)

Task ==
  /\ queue # << >> /\ ~running
  /\ LET t == Head(queue)
     IN  CASE t.task = "frames" -> queue' = Tail(queue) /\ running' = TRUE /\ UNCHANGED listening
           [] t.left > 0 -> queue' = Append(Tail(queue), [t EXCEPT !.left = @ - 1]) /\ UNCHANGED <<running, listening>>
           [] OTHER -> queue' = Tail(queue) /\ listening' = TRUE /\ UNCHANGED running
  /\ UNCHANGED <<conf, phase, came, buffer, frag, early, heard, wrote, closed, ended, told>>
\* client.send, client.close: in a handler, or at any later time.
Send ==
  /\ listening /\ ~closed /\ ~Contains(wrote, "text") /\ wrote' = Append(wrote, "text")
  /\ UNCHANGED <<conf, phase, came, buffer, queue, running, listening, frag, early, heard, closed, ended, told>>
Close ==
  /\ listening /\ ~closed /\ closed' = TRUE /\ wrote' = Append(wrote, "close")
  /\ UNCHANGED <<conf, phase, came, buffer, queue, running, listening, frag, early, heard, ended, told>>

-----------------------------------------------------------------------------
(* processFrames, a frame at a time: a handler may run between two of them *)

Whole == Len(buffer) >= 2
Taken == buffer[1].frame
This == conf.script[Taken]
Take == running /\ Whole /\ buffer' = SubSeq(buffer, 3, Len(buffer))
rest == <<conf, phase, came, queue, listening, early, ended, told>>

Pause == running /\ ~Whole /\ running' = FALSE
         /\ UNCHANGED <<buffer, frag, heard, wrote, closed, rest>>
Bad(f) ==
  CASE f.op \in Control -> ~f.fin \/ f.big
    [] f.op = "cont" -> frag = None
    [] f.op \in {"text", "binary"} -> frag # None
    [] OTHER -> TRUE
\* closeForProtocolError: the loop is left, what is in the buffer stays.
Rejects ==
  /\ Take /\ Bad(This) /\ running' = FALSE /\ closed' = TRUE
  /\ wrote' = IF closed THEN wrote ELSE Append(wrote, "close")
  /\ UNCHANGED <<frag, heard, rest>>
\* The answer to a close, or to a ping, is written whether the client is closed or not.
Answers ==
  /\ Take /\ ~Bad(This) /\ This.op \in Control
  /\ wrote' = CASE This.op = "close" -> Append(wrote, "close")
                [] This.op = "ping" -> Append(wrote, "pong")
                [] OTHER -> wrote
  /\ closed' = (closed \/ This.op = "close")
  /\ UNCHANGED <<running, frag, heard, rest>>
\* appendFragment, completeFragmentedMessage, emitText
Gathers ==
  LET all == Append(frag.parts, Taken)
      op == IF This.op = "cont" THEN frag.op ELSE This.op
  IN  /\ Take /\ ~Bad(This) /\ This.op \notin Control
      /\ frag' = IF This.fin THEN None ELSE [op |-> op, parts |-> all]
      /\ heard' = IF This.fin /\ op = "text" THEN Append(heard, [parts |-> all, to |-> listening]) ELSE heard
      /\ UNCHANGED <<running, wrote, closed, rest>>

Next ==
  \/ \E n \in 1..StreamLength : Chunk(n)
  \/ SocketEnds \/ Task \/ Send \/ Close
  \/ Pause \/ Rejects \/ Answers \/ Gathers
Spec == Init /\ [][Next]_vars

-----------------------------------------------------------------------------
TypeOK ==
  /\ phase \in {"opening", "open", "refused"} /\ came \in 0..StreamLength
  /\ {running, listening, closed, ended, told} \subseteq BOOLEAN

(* What RFC 6455 makes of the script, without a reader's state.            *)
Data(i) == conf.script[i].op \notin Control
Started(i) == Max({0} \cup {j \in 1..i : conf.script[j].op \in {"text", "binary"}})
Finished(i, j) == \E k \in i..j : Data(k) /\ conf.script[k].fin
Wrong(i) ==
  LET f == conf.script[i]
      s == Started(i - 1)
      inside == s # 0 /\ ~Finished(s, i - 1)
  IN  CASE f.op \in Control -> ~f.fin \/ f.big
        [] f.op = "cont" -> ~inside
        [] OTHER -> f.op = "other" \/ inside
FirstWrong == Min({Len(conf.script) + 1} \cup {i \in DOMAIN conf.script : Wrong(i)})
\* The frames that have left the buffer, up to the first that is wrong.
Passed == IF phase # "open" THEN 0 ELSE Min({(came - 2 - Len(buffer)) \div 2, FirstWrong - 1})
Ordered(S) == SetToSortSeq(S, <)

\* A message is handed over whole, once and in its order, however the chunks are cut, whatever control frames
\* come in between and whether frames came with the HTTP answer; nothing is left lying.
MessagesWhole ==
  LET last == Ordered({i \in 1..Passed : Data(i) /\ conf.script[i].fin /\ conf.script[Started(i)].op = "text"})
      expected == [k \in DOMAIN last |-> Ordered({i \in Started(last[k])..last[k] : Data(i)})]
  IN  /\ Len(heard) >= Len(last)
      /\ \A k \in DOMAIN last : heard[k].parts = expected[k]
      /\ Passed < FirstWrong - 1 => Len(heard) = Len(last)
      /\ Ready /\ phase = "open" /\ Passed < FirstWrong - 1 => ~Whole

\* A message that nobody listened to came with the HTTP answer, to a caller behind further promises: who awaits
\* connectWs itself hears all.
LostOnlyEarly ==
  \A k \in DOMAIN heard : heard[k].to \/ (conf.awaits > 0 /\ ToSet(heard[k].parts) \subseteq 1..early)

\* Pings are answered, one for one; nothing of the caller's is written after a close; and who has a client
\* hears of the end of its socket.
WrittenRightly ==
  LET pings == {i \in 1..Passed : conf.script[i].op = "ping"}
      pongs == {i \in DOMAIN wrote : wrote[i] = "pong"}
  IN  /\ Passed < FirstWrong - 1 => Cardinality(pongs) = Cardinality(pings)
      /\ \A i, j \in DOMAIN wrote : i < j /\ wrote[i] = "close" => wrote[j] # "text"
      /\ ended /\ phase = "open" => told

SocketKept == MessagesWhole /\ LostOnlyEarly /\ WrittenRightly
=============================================================================
