------------------------------ MODULE AmqpConn ------------------------------
(***************************************************************************)
(* One AMQP connection as the probe tracks it: the two peers exchange      *)
(* frames; the kernel reports each side's writes as data events on the     *)
(* observed endpoint's egress or ingress channel; the tracker classifies   *)
(* the connection on its first recognisable event (update_sock_conn_proto, *)
(* get_l7_protocol and __get_amqp_type in src/l7probe/include), appends    *)
(* every later frame to the frame queue of its direction, and the matcher  *)
(* (amqp_match_frames, src/l7probe/protocol/amqp/matcher/amqp_matcher.c)   *)
(* pairs the request-side queue with the response-side queue.              *)
(*                                                                         *)
(* Frames are whole here: AmqpStream shows that the extractor hands the    *)
(* matcher a well-formed peer's frames in order, whatever the chunking.    *)
(* The event channels, the tracker's data path and the record flush are  *)
(* written from the spec (sections 4.5, 4.6, 5): their code is not here.  *)
(***************************************************************************)
EXTENDS AmqpWire, FiniteSetsExt

CONSTANTS
  Endpoint,         \* the peer the probe runs beside: L7_CLIENT or L7_SERVER
  Channels,         \* AMQP channel ids; 0 carries the Connection class
  Exchanges,        \* synchronous methods: [cls, req, resp, by, pre, post]
  MAX_FRAMES,       \* frames the peers write in one behaviour
  RECORD_BUF_SIZE,  \* capacity of the record buffer (RECORD_BUF_SIZE)
  MAX_RECORD_ALLOC_FAILURES, \* record allocations that return NULL
  NULL              \* an emptied frame slot

\* enum l7_role_t, enum l7_direction_t, enum proto_type_t (l7.h)
L7_UNKNOW == "l7_unknown"
L7_CLIENT == "l7_client"
L7_SERVER == "l7_server"
L7_EGRESS  == "egress"
L7_INGRESS == "ingress"
PROTO_UNKNOW == "proto_unknown"
PROTO_AMQP   == "proto_amqp"

Directions == {L7_EGRESS, L7_INGRESS}
Sides == {L7_CLIENT, L7_SERVER}

ASSUME Endpoint \in Sides /\ 0 \in Channels
ASSUME \A e \in Exchanges : e.by \subseteq Sides /\ {e.pre, e.post} \subseteq BOOLEAN

VARIABLES
  started,      \* the client has written the protocol header
  pending,      \* [Channels -> exchange awaiting its reply, or NULL]
  isOpen,       \* [Channels -> the channel is open between the peers]
  nextId,       \* id (and write timestamp) of the next frame written
  events,       \* [Directions -> data events not yet handled, in order]
  protocol,     \* sock_conn->info.protocol
  l7_role,      \* sock_conn->info.l7_role
  frames,       \* [Directions -> frame_buf_s frames, slots may be NULL]
  cur,          \* [Directions -> frame_buf_s current_pos]
  records,      \* history: every record added to the record buffer
  record_buf,   \* record_buf->records[0 .. record_buf_size - 1]
  since,        \* history: pairs matched since the last report, and
                \* whether their record was allocated
  allocFailures \* history: record allocations that returned NULL

env   == <<started, pending, isOpen, nextId>>
recs  == <<records, record_buf, since, allocFailures>>
probe == <<events, protocol, l7_role, frames, cur, recs>>
vars  == <<env, probe>>

(***************************************************************************)
(* Peers.  A frame carries what the parser reports (AmqpMsg fields), its   *)
(* write time ts (the event timestamp add_match_record subtracts).        *)
(***************************************************************************)
DirOf(side) == IF side = Endpoint THEN L7_EGRESS ELSE L7_INGRESS
Other(side) == CHOOSE s \in Sides : s # side

NewFrame(ph, type, ch, cls, mth) ==
  [id |-> nextId, ts |-> nextId,
   is_protocol_header |-> ph, frame_type |-> type, channel_id |-> ch,
   class_id |-> cls, raw_method_id |-> mth,
   msg_type |-> IF type = AMQP_FRAME_METHOD THEN get_message_type(cls, mth)
                ELSE MESSAGE_REQUEST]

Write(side, f) ==
  /\ nextId <= MAX_FRAMES
  /\ nextId' = nextId + 1
  /\ events' = [events EXCEPT ![DirOf(side)] = Append(@, f)]

WriteProtocolHeader ==
  /\ ~started
  /\ started' = TRUE
  /\ Write(L7_CLIENT, NewFrame(TRUE, AMQP_FRAME_UNKNOWN, 0, 0, 0))
  /\ UNCHANGED <<pending, isOpen, protocol, l7_role, frames, cur, recs>>

ClassChannels(cls) == IF cls = AMQP_CLASS_CONNECTION THEN {0} ELSE Channels \ {0}

\* A peer sends a synchronous method on a channel with nothing outstanding,
\* in the channel state the method needs (e.pre: open, or not yet open).
SendRequest(side, ch, e) ==
  /\ started
  /\ side \in e.by
  /\ ch \in ClassChannels(e.cls)
  /\ pending[ch] = NULL
  /\ isOpen[ch] = e.pre
  /\ pending' = [pending EXCEPT ![ch] =
                   [cls |-> e.cls, resp |-> e.resp, by |-> side, post |-> e.post]]
  /\ Write(side, NewFrame(FALSE, AMQP_FRAME_METHOD, ch, e.cls, e.req))
  /\ UNCHANGED <<started, isOpen, protocol, l7_role, frames, cur, recs>>

\* The other peer answers the outstanding method of a channel, which then
\* is open or closed as the method says (e.post).
SendReply(ch) ==
  LET p == pending[ch] IN
  /\ p # NULL
  /\ pending' = [pending EXCEPT ![ch] = NULL]
  /\ isOpen' = [isOpen EXCEPT ![ch] = p.post]
  /\ Write(Other(p.by), NewFrame(FALSE, AMQP_FRAME_METHOD, ch, p.cls, p.resp))
  /\ UNCHANGED <<started, protocol, l7_role, frames, cur, recs>>

\* Asynchronous frames: Basic.Publish (no reply) and heartbeats.
SendPublish(ch) ==
  /\ started
  /\ ch # 0
  /\ isOpen[ch]
  /\ Write(L7_CLIENT, NewFrame(FALSE, AMQP_FRAME_METHOD, ch, AMQP_CLASS_BASIC,
                               METHOD_BASIC_PUBLISH))
  /\ UNCHANGED <<started, pending, isOpen, protocol, l7_role, frames, cur, recs>>

SendHeartbeat(side) ==
  /\ started
  /\ Write(side, NewFrame(FALSE, AMQP_FRAME_HEARTBEAT, 0, 0, 0))
  /\ UNCHANGED <<started, pending, isOpen, protocol, l7_role, frames, cur, recs>>

-----------------------------------------------------------------------------
(***************************************************************************)
(* Classification (connect.h, l7.h).                                       *)
(***************************************************************************)
\* __get_amqp_type: the protocol header, or a frame of type 1, is a request.
get_amqp_type(f) ==
  IF f.is_protocol_header \/ f.frame_type = AMQP_FRAME_METHOD
  THEN MESSAGE_REQUEST ELSE MESSAGE_UNKNOW

\* get_l7_role
get_l7_role(msg_type, direction) ==
  IF (direction = L7_EGRESS) # (msg_type = MESSAGE_RESPONSE)
  THEN L7_CLIENT ELSE L7_SERVER

\* get_message_type(l7_role, direction) of connect.h: the message kind of a
\* direction, which decides which queue the matcher takes as requests.
get_message_type_by_role(role, direction) ==
  IF role = L7_CLIENT
  THEN IF direction = L7_INGRESS THEN MESSAGE_RESPONSE ELSE MESSAGE_REQUEST
  ELSE IF direction = L7_INGRESS THEN MESSAGE_REQUEST ELSE MESSAGE_RESPONSE

\* update_sock_conn_proto: classify once, and derive the role from the
\* classifying event.  Returns the new protocol and role.
update_sock_conn_proto(d, f) ==
  LET t == get_amqp_type(f) IN
  IF protocol # PROTO_UNKNOW THEN [protocol |-> protocol, role |-> l7_role]
  ELSE IF t = MESSAGE_UNKNOW THEN [protocol |-> protocol, role |-> l7_role]
  ELSE [protocol |-> PROTO_AMQP, role |-> get_l7_role(t, d)]

(***************************************************************************)
(* A data event of direction d: classify the tracker if it is not yet     *)
(* classified, and append the event's frame to the queue of its direction *)
(* (an unclassified tracker still keeps the bytes, spec section 4.5).     *)
(***************************************************************************)
OnData(d) ==
  LET f == Head(events[d])
      c == update_sock_conn_proto(d, f)
  IN  /\ events[d] # <<>>
      /\ events' = [events EXCEPT ![d] = Tail(@)]
      /\ protocol' = c.protocol
      /\ l7_role' = c.role
      /\ frames' = [frames EXCEPT ![d] = Append(@, f)]
      /\ UNCHANGED <<env, cur, recs>>

-----------------------------------------------------------------------------
(***************************************************************************)
(* The matcher.                                                            *)
(***************************************************************************)
\* The Connection and Channel method pairs amqp_match_frames accepts.
AmqpMethodPairs ==
  {<<AMQP_CLASS_CONNECTION, q, s>> :
     <<q, s>> \in {<<METHOD_CONNECTION_START, METHOD_CONNECTION_START_OK>>,
                   <<METHOD_CONNECTION_SECURE, METHOD_CONNECTION_SECURE_OK>>,
                   <<METHOD_CONNECTION_TUNE, METHOD_CONNECTION_TUNE_OK>>,
                   <<METHOD_CONNECTION_OPEN, METHOD_CONNECTION_OPEN_OK>>,
                   <<METHOD_CONNECTION_CLOSE, METHOD_CONNECTION_CLOSE_OK>>}}
  \cup
  {<<AMQP_CLASS_CHANNEL, q, s>> :
     <<q, s>> \in {<<METHOD_CHANNEL_OPEN, METHOD_CHANNEL_OPEN_OK>>,
                   <<METHOD_CHANNEL_FLOW, METHOD_CHANNEL_FLOW_OK>>,
                   <<METHOD_CHANNEL_CLOSE, METHOD_CHANNEL_CLOSE_OK>>}}

\* A request slot the outer loop considers.
IsMatchableRequest(q) ==
  q # NULL /\ ~q.is_protocol_header /\ q.frame_type = AMQP_FRAME_METHOD

\* A response slot the inner loop accepts for request q.
IsReplyTo(q, s) ==
  /\ s # NULL
  /\ s.frame_type = AMQP_FRAME_METHOD
  /\ s.channel_id = q.channel_id
  /\ q.class_id = s.class_id
  /\ <<q.class_id, q.raw_method_id, s.raw_method_id>> \in AmqpMethodPairs

(***************************************************************************)
(* add_match_record for the n+1-th pair of a pass: init_amqp_record, or   *)
(* the malloc of its record_data, returns NULL when the pass fails at that *)
(* pair (failAt), and the record is not made; otherwise it is appended if  *)
(* the buffer has room, and freed (dropped) if not.  since records the     *)
(* pair either way.                                                        *)
(***************************************************************************)
StoreRecord(q, s, st, room) ==
  LET rec  == [req |-> q, resp |-> s]
      made == st.n + 1 # st.failAt
      kept == made /\ room
  IN  [st EXCEPT !.n = @ + 1,
                 !.since = Append(@, [rec |-> rec, made |-> made]),
                 !.records = IF kept THEN Append(@, rec) ELSE @,
                 !.buf = IF kept THEN Append(@, rec) ELSE @]

\* Variant that stores the record whatever the buffer's fill.
add_match_record_nocap(q, s, st) == StoreRecord(q, s, st, TRUE)

\* Variant whose fullness test is one record short.
add_match_record_early_full(q, s, st) ==
  StoreRecord(q, s, st, Len(st.buf) + 1 < RECORD_BUF_SIZE)

\* add_match_record: a full record buffer drops the new record.
add_match_record(q, s, st) ==
  StoreRecord(q, s, st, Len(st.buf) < RECORD_BUF_SIZE)

\* Variant that empties only the request slot of a pair.
ClearPair_keep_resp(st, i, j) == [st EXCEPT !.reqs[i] = NULL]

\* "Mark as used": both slots of a matched pair are set to NULL.
ClearPair(st, i, j) == [st EXCEPT !.reqs[i] = NULL, !.resps[j] = NULL]

(***************************************************************************)
(* amqp_match_frames from request slot i on: each request takes the first  *)
(* reply after the response cursor rcur; both slots are then emptied.      *)
(***************************************************************************)
RECURSIVE MatchFrom(_, _, _)
MatchFrom(i, rcur, st) ==
  IF i > Len(st.reqs) THEN st
  ELSE IF ~IsMatchableRequest(st.reqs[i]) THEN MatchFrom(i + 1, rcur, st)
  ELSE LET q  == st.reqs[i]
           js == {j \in (rcur + 1) .. Len(st.resps) : IsReplyTo(q, st.resps[j])}
       IN  IF js = {} THEN MatchFrom(i + 1, rcur, st)
           ELSE LET j == Min(js) IN
                MatchFrom(i + 1, rcur, ClearPair(add_match_record(q, st.resps[j], st), i, j))

\* The direction whose queue holds requests for this tracker's role.
ReqDir == CHOOSE d \in Directions :
            get_message_type_by_role(l7_role, d) = MESSAGE_REQUEST
RespDir == CHOOSE d \in Directions : d # ReqDir

\* Variant that advances only the response cursor.
AdvanceCursors_resp_only == [d \in Directions |-> IF d = RespDir THEN Len(frames[d]) ELSE cur[d]]

\* Both cursors move to the end of their queues.
AdvanceCursors == [d \in Directions |-> Len(frames[d])]

\* The pair of one pass whose record allocation fails (0: none).
FailChoices ==
  IF allocFailures < MAX_RECORD_ALLOC_FAILURES THEN 0 .. MAX_FRAMES \div 2
  ELSE {0}

(* One matcher pass over the frames parsed since the last one, the record  *)
(* allocation failing at its failAt-th pair; both cursors then move to the *)
(* end of their queues.                                                    *)
amqp_match_frames ==
  \E failAt \in FailChoices :
    LET st == MatchFrom(cur[ReqDir] + 1, cur[RespDir],
                [reqs |-> frames[ReqDir], resps |-> frames[RespDir],
                 records |-> records, buf |-> record_buf, since |-> since,
                 n |-> 0, failAt |-> failAt])
    IN  /\ protocol = PROTO_AMQP
        /\ \E d \in Directions : cur[d] < Len(frames[d])
        /\ frames' = [d \in Directions |-> IF d = ReqDir THEN st.reqs ELSE st.resps]
        /\ cur' = AdvanceCursors
        /\ records' = st.records
        /\ record_buf' = st.buf
        /\ since' = st.since
        /\ allocFailures' = allocFailures + IF failAt \in 1 .. st.n THEN 1 ELSE 0
        /\ UNCHANGED <<env, events, protocol, l7_role>>

\* The periodic report hands the buffered records to the sink.
ReportRecords ==
  /\ record_buf # <<>>
  /\ record_buf' = <<>>
  /\ since' = <<>>
  /\ UNCHANGED <<env, events, protocol, l7_role, frames, cur, records, allocFailures>>

-----------------------------------------------------------------------------
Init ==
  /\ started \in BOOLEAN      \* the probe may attach after the header
  /\ pending = [c \in Channels |-> NULL]
  /\ isOpen = [c \in Channels |-> c = 0]
  /\ nextId = 1
  /\ events = [d \in Directions |-> <<>>]
  /\ protocol = PROTO_UNKNOW
  /\ l7_role = L7_UNKNOW
  /\ frames = [d \in Directions |-> <<>>]
  /\ cur = [d \in Directions |-> 0]
  /\ records = <<>>
  /\ record_buf = <<>>
  /\ since = <<>>
  /\ allocFailures = 0

Next ==
  \/ WriteProtocolHeader
  \/ \E s \in Sides, c \in Channels, e \in Exchanges : SendRequest(s, c, e)
  \/ \E c \in Channels : SendReply(c) \/ SendPublish(c)
  \/ \E s \in Sides : SendHeartbeat(s)
  \/ \E d \in Directions : OnData(d)
  \/ amqp_match_frames
  \/ ReportRecords

Spec == Init /\ [][Next]_vars

-----------------------------------------------------------------------------
Frame == [id : Nat, ts : Nat, is_protocol_header : BOOLEAN,
          frame_type : Nat, channel_id : Channels, class_id : Nat,
          raw_method_id : Nat, msg_type : {MESSAGE_REQUEST, MESSAGE_RESPONSE}]

\* struct amqp_record_s: the request and response messages of a pair.
AmqpRecord == [req : Frame, resp : Frame]

TypeOK ==
  /\ started \in BOOLEAN
  /\ isOpen \in [Channels -> BOOLEAN]
  /\ nextId \in 1 .. (MAX_FRAMES + 1)
  /\ events \in [Directions -> Seq(Frame)]
  /\ protocol \in {PROTO_UNKNOW, PROTO_AMQP}
  /\ l7_role \in {L7_UNKNOW, L7_CLIENT, L7_SERVER}
  /\ frames \in [Directions -> Seq(Frame \cup {NULL})]
  /\ cur \in [Directions -> Nat]
  /\ \A d \in Directions : cur[d] <= Len(frames[d])
  /\ records \in Seq(AmqpRecord)
  /\ record_buf \in Seq(AmqpRecord)
  /\ Len(record_buf) <= RECORD_BUF_SIZE
  /\ allocFailures \in 0 .. MAX_RECORD_ALLOC_FAILURES

(* The record buffer holds, in order, the earliest records made since the  *)
(* last report, as many as fit: a record made when RECORD_BUF_SIZE are     *)
(* waiting is the one dropped, a pair whose record allocation failed takes *)
(* no slot, and nothing buffered is overwritten or reordered across        *)
(* matcher passes.  About add_match_record's allocation checks and its     *)
(* "record_buf_size < RECORD_BUF_SIZE" test.                               *)
RecordBufferKeepsEarliest ==
  LET made == SelectSeq(since, LAMBDA p : p.made)
  IN  record_buf = [i \in 1 .. Min({Len(made), RECORD_BUF_SIZE}) |-> made[i].rec]

(* A frame is paired at most once: no request and no response appears in   *)
(* two records (amqp_match_frames empties both slots of a pair).           *)
NoFrameInTwoRecords ==
  \A i, j \in DOMAIN records :
    i # j => /\ records[i].req.id # records[j].req.id
             /\ records[i].resp.id # records[j].resp.id

(* Spec section 8: records come out in the order their requests were       *)
(* made, across matcher passes (the matcher's request cursor).             *)
RecordsInRequestOrder ==
  \A i, j \in DOMAIN records : i < j => records[i].req.id < records[j].req.id

(* Spec section 8: every record's latency, resp.ts - req.ts computed in    *)
(* u64 by add_match_record, is non-negative: no record pairs a request     *)
(* with a response written before it.                                      *)
LatencyNonNegative ==
  \A i \in DOMAIN records : records[i].resp.ts >= records[i].req.ts

(* Spec sections 4.6 and 5: a request and a reply to it that the matcher   *)
(* has both scanned are paired; the queues are rescanned so that a reply   *)
(* parsed after its request's pass still finds it.                         *)
ScannedPairsRecorded ==
  protocol = PROTO_AMQP =>
    ~ \E i \in 1 .. cur[ReqDir], j \in 1 .. cur[RespDir] :
        /\ IsMatchableRequest(frames[ReqDir][i])
        /\ IsReplyTo(frames[ReqDir][i], frames[RespDir][j])

(* Spec sections 4.1 and 4.3: the request/response kind of an AMQP method  *)
(* is the one the frame extractor assigns (get_message_type of the         *)
(* parser); the matcher's request queue holds the requests and its         *)
(* response queue the responses.  Stated for a tracker whose role is the   *)
(* endpoint's, so that a wrongly derived role (RoleMatchesEndpoint) is not *)
(* what breaks it: connect.h's get_message_type fixes the queues by        *)
(* direction, whichever peer sent a method.                                *)
QueueAgreesWithFrameType ==
  l7_role = Endpoint =>
    \A d \in Directions : \A i \in DOMAIN frames[d] :
      LET f == frames[d][i] IN
      (f # NULL /\ f.frame_type = AMQP_FRAME_METHOD) =>
         f.msg_type = get_message_type_by_role(l7_role, d)

(* Spec section 3: the L7 role the tracker derives is the role of the      *)
(* endpoint the probe observes.                                            *)
RoleMatchesEndpoint ==
  l7_role # L7_UNKNOW => l7_role = Endpoint

=============================================================================
