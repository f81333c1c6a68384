----------------------------- MODULE AmqpStream -----------------------------
(***************************************************************************)
(* One direction of an AMQP connection as the probe sees it: the peer's    *)
(* frames arrive as data events carrying arbitrary chunks of the byte      *)
(* stream; each event appends its chunk to the stream's raw buffer and     *)
(* runs the frame-extraction loop, which calls amqp_parse_frame and, on    *)
(* STATE_INVALID, amqp_find_frame_boundary.                                *)
(*                                                                         *)
(* The extraction loop and the stuck-counter reset belong to the data      *)
(* stream component, whose source is not in this repository: they are     *)
(* written from spec sections 4.3 and 4.4.  The parser operators are       *)
(* those of AmqpWire, written from the source.                             *)
(***************************************************************************)
EXTENDS AmqpWire

CONSTANTS
  Inputs,             \* set of [msgs, wire]: frames written and their bytes
  MAX_CHUNK,          \* largest chunk one data event carries (CONN_DATA_MAX_SIZE)
  STUCK_THRESHOLD,    \* consecutive failed extractions before a stream reset
  MAX_ALLOC_FAILURES, \* allocations that return NULL, per behaviour
  MAX_FAIL_CALL       \* the latest parse call of one event that may hit one

ASSUME MAX_CHUNK \in Nat \ {0} /\ STUCK_THRESHOLD \in Nat \ {0}
ASSUME MAX_ALLOC_FAILURES \in Nat /\ MAX_FAIL_CALL \in Nat

VARIABLES
  msgs,     \* history: the frames the peer wrote (never changes)
  wire,     \* bytes written by the peer and not yet delivered to the probe
  buf,      \* raw_data->data: every byte appended to this stream so far
  pos,      \* raw_data->current_pos
  frames,   \* the frames extracted so far, in order
  stuck,    \* consecutive extraction runs that ended on STATE_INVALID
  build,    \* what this build makes of the undefined "<< 32"
  failures, \* ghost: allocations that returned NULL so far
  lost      \* ghost: frames parsed whose frame_data allocation failed

vars == <<msgs, wire, buf, pos, frames, stuck, build, failures, lost>>

(***************************************************************************)
(* Where one event's extraction meets a NULL allocation: at its at-th call *)
(* of amqp_parse_frame (at = 0: nowhere), of kind ALLOC_MSG_FAILS or       *)
(* ALLOC_FRAME_FAILS.                                                      *)
(***************************************************************************)
FailurePoints ==
  {[at |-> 0, kind |-> ALLOC_OK]}
  \cup [at : 1 .. MAX_FAIL_CALL, kind : {ALLOC_MSG_FAILS, ALLOC_FRAME_FAILS}]

(***************************************************************************)
(* The extraction loop of spec 4.3: while bytes remain, parse one frame;   *)
(* on success keep it and go on; on "needs more" stop and wait; on         *)
(* "invalid" ask for a boundary at the cursor (where amqp_parse_frame left *)
(* it) and go on from it only if it lies beyond the cursor, else count the *)
(* failure and stop.  The result also counts the allocations that failed   *)
(* and the parsed frames lost with them.                                   *)
(***************************************************************************)
RECURSIVE ParseLoop(_, _, _, _, _, _)
ParseLoop(b, p, fs, st, f, bld) ==
  LET alloc   == IF f.at = 1 THEN f.kind ELSE ALLOC_OK
      r       == amqp_parse_frame(b, p, alloc, bld)
      nf      == [f EXCEPT !.at = @ - 1]
      parsed  == amqp_parse_frame(b, p, ALLOC_OK, bld).state = STATE_SUCCESS
      frameLost == alloc = ALLOC_FRAME_FAILS /\ parsed
      failed  == alloc = ALLOC_MSG_FAILS \/ frameLost
      nb      == amqp_find_frame_boundary(b, r.pos)
      stop(c, s) == [pos |-> c, frames |-> fs, stuck |-> s,
                     failures |-> 0, lost |-> 0]
      more(x) == [x EXCEPT !.failures = @ + IF failed THEN 1 ELSE 0,
                           !.lost = @ + IF frameLost THEN 1 ELSE 0]
  IN  IF p >= Len(b) THEN stop(p, st)
      ELSE CASE r.state = STATE_SUCCESS ->
                  more(ParseLoop(b, r.pos, Append(fs, r.msg), 0, nf, bld))
             [] r.state = STATE_NEEDS_MORE_DATA -> more(stop(p, st))
             [] OTHER ->
                  IF nb # PARSER_INVALID_BOUNDARY_INDEX /\ nb > r.pos
                  THEN more(ParseLoop(b, nb, fs, st, nf, bld))
                  ELSE more(stop(r.pos, st + 1))

(***************************************************************************)
(* A data event: the next k bytes of the peer's stream are appended to the *)
(* raw buffer and extracted, the allocations failing at f.  A stream stuck *)
(* STUCK_THRESHOLD times in a row is reset: its raw buffer is dropped      *)
(* (spec 4.4).                                                             *)
(***************************************************************************)
OnData(k, f) ==
  LET b == buf \o SubSeq(wire, 1, k)
      r == ParseLoop(b, pos, frames, stuck, f, build)
  IN  /\ k <= Len(wire)
      /\ f.at > 0 => failures < MAX_ALLOC_FAILURES
      /\ wire' = SubSeq(wire, k + 1, Len(wire))
      /\ frames' = r.frames
      /\ failures' = failures + r.failures
      /\ lost' = lost + r.lost
      /\ IF r.stuck >= STUCK_THRESHOLD
         THEN /\ buf' = <<>>
              /\ pos' = 0
              /\ stuck' = 0
         ELSE /\ buf' = b
              /\ pos' = r.pos
              /\ stuck' = r.stuck
      /\ UNCHANGED <<msgs, build>>

Init ==
  /\ \E in \in Inputs : msgs = in.msgs /\ wire = in.wire
  /\ buf = <<>>
  /\ pos = 0
  /\ frames = <<>>
  /\ stuck = 0
  /\ build \in BUILD_SHIFT32
  /\ failures = 0
  /\ lost = 0

Next == \E k \in 1 .. MAX_CHUNK, f \in FailurePoints : OnData(k, f)

Spec == Init /\ [][Next]_vars

-----------------------------------------------------------------------------
\* The fields of an extracted message that the sender wrote.
Descr(m) == [is_protocol_header |-> m.is_protocol_header,
             frame_type |-> m.frame_type, channel_id |-> m.channel_id,
             payload_size |-> m.payload_size, class_id |-> m.class_id,
             raw_method_id |-> m.raw_method_id, body_size |-> m.body_size]

TypeOK ==
  /\ wire \in Seq(Byte)
  /\ buf \in Seq(Byte)
  /\ pos \in 0 .. Len(buf)
  /\ frames \in Seq(AmqpMsg)
  /\ stuck \in 0 .. STUCK_THRESHOLD
  /\ build \in BUILD_SHIFT32
  /\ failures \in 0 .. MAX_ALLOC_FAILURES
  /\ lost \in 0 .. failures

(* Once every byte the peer wrote has been delivered, and no allocation    *)
(* failed, the extractor has emitted every frame the peer wrote: no        *)
(* chunking of the stream leaves a frame stranded in the raw buffer        *)
(* (amqp_parse_frame's NEEDS_MORE_DATA and cursor advance, and the         *)
(* resynchronisation by amqp_find_frame_boundary after bytes that do not   *)
(* parse).                                                                 *)
AllFramesExtracted ==
  wire = <<>> /\ failures = 0 => Len(frames) = Len(msgs)

(* Spec section 8: every frame amqp_parse_frame emits advanced the cursor  *)
(* by exactly the frame's encoded length, 8 bytes of header and end byte   *)
(* plus payload_size (8 for the protocol header).                          *)
ConsumedIsEncodedLength ==
  \A i \in DOMAIN frames :
    frames[i].consumed =
      IF frames[i].is_protocol_header THEN AMQP_HEADER_SIZE
      ELSE 8 + frames[i].payload_size

(* A data event on which no allocation failed leaves no whole frame at    *)
(* the cursor: the bytes after it are fewer than the next frame written    *)
(* needs, so the extraction loop drained every complete frame from the    *)
(* raw buffer, those an earlier failure left behind included.  It is about *)
(* amqp_parse_frame returning STATE_INVALID, not SUCCESS, after its        *)
(* frame_data malloc fails, which stops the loop with whole frames still   *)
(* queued behind the lost one.                                             *)
EncodedLength(m) ==
  IF m.is_protocol_header THEN AMQP_HEADER_SIZE ELSE 8 + m.payload_size

\* The frames of msgs consumed so far, emitted or lost.
Taken == Len(frames) + lost

NothingLeftBehind ==
  [][ failures' = failures /\ Taken' < Len(msgs) =>
        Len(buf') - pos' < EncodedLength(msgs[Taken' + 1]) ]_vars

(* Spec 4.3: a method frame yields the exchange, queue and routing key the *)
(* peer wrote in it (parse_exchange, parse_queue and parse_routing_key on  *)
(* the offsets amqp_parse_frame passes them).  Stated for streams where no *)
(* frame is lost, so that the i-th frame emitted is the i-th written.      *)
StringFieldsAsWritten ==
  lost = 0 =>
    \A i \in DOMAIN frames :
      /\ frames[i].exchange = msgs[i].exchange
      /\ frames[i].queue = msgs[i].queue
      /\ frames[i].routing_key = msgs[i].routing_key

(* The extractor implements AmqpFrameQueue: the frames emitted are always  *)
(* the peer's frames, in the peer's order, with the fields it wrote        *)
(* (content-header body_size included, whatever the build makes of the    *)
(* undefined shift), and the only frames missing are those whose          *)
(* frame_data allocation failed: each is dropped, never emitted later, and *)
(* the frames after it still come out in order.                            *)
Queue == INSTANCE AmqpFrameQueue
           WITH input <- [i \in DOMAIN msgs |-> Descr(msgs[i])],
                out   <- [i \in DOMAIN frames |-> Descr(frames[i])],
                lost  <- lost

QueueSpec == Queue!Spec

=============================================================================
