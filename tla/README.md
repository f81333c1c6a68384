# TLA+ models of l7probe's protocol inferrer and AMQP path

These modules model l7probe's protocol inferrer (`include/l7.h`) and its AMQP
0-9-1 path (`src/l7probe`). Bytes the
kernel reports for a socket go through four steps:

- they are classified into a protocol and an L7 role;
- they are cut into frames;
- the frames are queued per direction;
- request frames are paired with response frames into latency records.

TLC checks the models. Each definition is written from the C source it names in
`PROJECT.json` → `map`. The few parts whose code is not in this repository are
written from `spec.md` and marked `spec_modelled`: the raw buffer, the data
stream's extraction loop, the tracker's event routing and the record report.

## The system (survey)

| Part | Code | State | Operations |
|---|---|---|---|
| C1 protocol inferrer | `include/l7.h` `get_l7_protocol`, `__get_*_type`; `include/connect.h` `update_sock_conn_proto`, `get_l7_role` | tracker `protocol`, `l7_role`; MySQL carry-over `prev_count`, `prev_buf` | classify an event; derive the role |
| C2 raw buffer | not in `src/` | bytes, cursor | append, consume |
| C3 AMQP frame extractor | `protocol/amqp/parser/amqp_parser.c` | none (pure over buffer and cursor) | `amqp_parse_frame`, `amqp_find_frame_boundary` |
| C4 data stream | not in `src/` | raw buffer, frame queue, stuck counter | extraction loop; reset |
| C5 connection tracker | `include/connect.h` (data path only) | protocol, role, two streams | route a data event |
| C6 AMQP matcher | `protocol/amqp/matcher/amqp_matcher.c` | two frame queues with cursors, record buffer | `amqp_match_frames`, `add_match_record` |

How the parts interact:

- **Tracker and inferrer.** An event on a tracker whose protocol is still
  unknown goes to the inferrer. Its result fixes the protocol. The role comes
  from `(direction == egress) XOR (kind == response)`.
- **Streams.** Each direction's stream appends the bytes and runs the
  extractor.
- **Matcher.** The matcher takes the request queue and the response queue. The
  caller chooses which queue is which with connect.h's
  `get_message_type(l7_role, direction)`.

The behaviours that make this code hard to test:

- **Chunking.** A frame can be split over data events anywhere.
- **Cross-direction reordering.** Events of the two directions can be
  reordered (spec §5), and the probe can attach mid-connection.
- **Matcher passes.** Passes interleave with frame arrival. The cursors move to
  the end after every pass.
- **uint32 length arithmetic** in the parser.
- **Bounded buffers.** The record buffer is bounded, and a full buffer drops a
  record.
- **Allocation failure.** `init_amqp_msg`, the `frame_data` malloc,
  `init_amqp_record` and the `record_data` malloc may each return NULL.
- **Single-threaded scheduling.** Spec §5: one tracker's operations never run
  concurrently. Concurrency is therefore the interleaving of event arrival in
  the two directions with matcher passes and reports, not threads.

The hazards are listed with their lines in `PROJECT.json` → `hazards`.

## Modules

| Module | Models | State ↔ code |
|---|---|---|
| `AmqpWire` | C3, AMQP enums | pure operators: `read_u16_be`, `read_u32_be`, `FrameSize`/`FrameEndOffset` (the uint32 `8 + payload_size` and `7 + payload_size`), `HasWholeFrame`, `NextPos` (the cursor advance), `get_message_type`, `read_short_str`, `parse_exchange`, `parse_queue`, `parse_routing_key`, `MethodStrings` (the method-frame fields), `body_size` with `Shift32`, `frame_data_result` (the cursor advance, then the `frame_data` malloc), `amqp_find_frame_boundary`, `amqp_parse_frame(buf, pos, alloc, build)` |
| `AmqpFrameQueue` | abstract C3/C4 | the frames written, `input`, are taken in order; each is emitted to `out` or dropped (`lost` counts those); nothing is emitted twice or out of order |
| `AmqpStream` | C2 + C4 driving C3, one direction | `buf` = raw data, `pos` = `current_pos`, `frames` = extracted messages, `stuck`; `build` = what this build makes of the undefined `<< 32`; ghosts `failures` (allocations that returned NULL) and `lost` (frames dropped with them); action `OnData(k, f)` = one data event of k bytes and the whole extraction loop, with an allocation returning NULL at the parse call `f` names |
| `AmqpConn` | C1 (AMQP only), C5 data path, C6 | `events` = the per-direction kernel channels; `protocol`, `l7_role` = `sock_conn->info`; `frames`/`cur` = the two `frame_buf_s`; `record_buf` = the records of `record_buf_s` (its size is `Len(record_buf)`); ghosts `records` (every record stored), `since` (every pair made since the last report, and whether its record was allocated) and `allocFailures`; a matcher pass chooses the pair whose record allocation fails (`failAt`, 0 for none); peer actions write frames |
| `L7Infer` | C1 | pure operators over real byte values 0..255, one per `__get_*_type` (the NATS macros as a table of token checks, `__NATS_HMSG`'s double `buf[2]` included), the casts they make (`U16Le`, `U24Le`, `I32Le`, `U16Be`, `U32Be`), the enable bits, and `get_l7_protocol`: the first enabled branch in `PRIORITY` order that hits, plus the MySQL branch's writes of `prev_count` (`AsU8`, the u8 store) and `prev_buf` |
| `L7Signatures` | spec 4.1 | the reference signatures for Redis, PostgreSQL, Cassandra, MongoDB, single-event MySQL and CRPC, written from the spec's words |
| `L7Tracker` | C1 + C5 classification | `info` = `sock_conn->info` (`protocol`, `l7_role`, `prev_count`, `prev_buf`); `flags` = the enable mask; action `OnEvent(d, buf)` = one data event and the whole `update_sock_conn_proto`; ghosts `last`, `prev_len`, `carried` |
| `MCAmqpStream`, `MCAmqpConn`, `MCL7Tracker` | instances for TLC | — |

A byte is a digit in radix `BYTE = 16`, so a uint32 wraps at 16^4. The end
byte 0xCE is digit 14. The protocol header is eight digits whose first is not a
frame type, as 'A' is not.

In `AmqpConn` frames are whole: `AmqpStream` shows that the extractor delivers
a well-formed peer's frames in order whatever the chunking. Each frame carries:

- the fields the matcher reads;
- its write time `ts`, which is the event timestamp `add_match_record`
  subtracts;
- an `id`, which the properties use.

In `L7Infer` bytes are real values, because the signature tests compare with
ASCII letters and mask bits. TLC's integers are 32-bit signed, so a 32-bit load
is written as its low 24 bits plus the top byte. The MySQL test's `len & 0x00ffffff`
is `U24Le`, and its `u32 == count` is "top byte 0 and `U24Le` = count", which is
the same for any count below 2^24.

`AmqpStream` refines `AmqpFrameQueue`: the `QueueSpec` property is the abstract
spec instantiated with `out <- Descr(frames)`.

## Runs

| Run | Expect | What it shows |
|---|---|---|
| `amqp_stream` | pass | Every chunking of up to three frames is covered: the protocol header, Channel.Open, a heartbeat, two bodies (one whose payload byte equals the end byte) and a content header. At most one allocation returns NULL: `init_amqp_msg` or the `frame_data` malloc, at an event's first or second parse call. Both build outcomes of the undefined `<< 32` are covered. Frames come out in order with the written fields, body size included. The only frames missing are those whose `frame_data` allocation failed (`QueueSpec`, a refinement of `AmqpFrameQueue`). With no failure every frame is extracted (`AllFramesExtracted`). An event without a failure leaves no whole frame at the cursor (`NothingLeftBehind`). 80,254 distinct states. |
| `amqp_stream_wrap` | violation | A body frame with payload_size 2^32−6 and channel high byte 0xCE is accepted. It consumes 2 bytes, not its encoded length (`ConsumedIsEncodedLength`). |
| `amqp_stream_fields` | violation | A Basic.Publish to the default exchange with routing key "7" is reported with an empty routing key. `parse_exchange` adds 2 to `*offset` and reads at `payload + *offset`, where `payload` already includes the offset. `read_short_str` then overwrites `*offset` instead of adding to it. So the routing key is read from the exchange's length byte. An Exchange.Declare's name is read 11 bytes too far, past the frame. |
| `amqp_stream_resync` | violation | After 8 bytes that do not parse, `amqp_find_frame_boundary` cannot resynchronise and the valid frames that follow are never extracted. |
| `amqp_conn` | pass | Every interleaving of writes by both peers, event delivery per direction, matcher passes and reports is covered. No frame is in two records (`NoFrameInTwoRecords`). Records follow request order (`RecordsInRequestOrder`). At most one record allocation returns NULL. The record buffer holds exactly the earliest records made since the last report, as many as fit: the newest record is the one dropped when the buffer is full, and a failed allocation takes no slot (`RecordBufferKeepsEarliest`). 1,736,696 distinct states. |
| `amqp_conn_latency_non_negative` | violation | An Open-Ok whose Open was scanned too early is paired with the Open of a later reopen of the channel: latency < 0. |
| `amqp_conn_scanned_pairs_recorded` | violation | A request whose reply arrives after a matcher pass is never paired. |
| `amqp_conn_queue_agrees_with_frame_type` | violation | Stated only while the role is the endpoint's (client), so a wrong role is not what breaks it. The client opens channel 1, and the broker's Channel.Close, a request by its method, lands in the response queue: the queue follows role and direction, not the frame's kind. |
| `amqp_conn_role_matches_endpoint` | violation | A client-side probe that first sees a broker frame takes itself for the server. |
| `l7_tracker` | pass | Every sequence of four data events, in either direction, drawn from 24 buffers, is covered, with all protocols enabled or only Redis, MySQL and AMQP. The buffers are a hit and near misses for each signature, the split MySQL header of spec scenario 3, a 260-byte event and AMQP frames. The tracker's role is known exactly when its protocol is (`TypeOK`). The Redis, PgSQL, CQL, Mongo and MySQL tests agree with spec 4.1 (`SignaturesAgreeWithSpec`). A 4-byte MySQL header followed by its body classifies the connection as MySQL or as an earlier-priority protocol (`MysqlSplitHeaderRecognised`, an action property). |
| `l7_tracker_crpc` | violation | A 103-byte CRPC request with both lengths right and the request flag set is left unknown: `request_flag` is `buf[9] & 0x80`, compared with 1. |
| `l7_tracker_carry_over` | violation | Events of 4, 260 and 5 bytes. The u8 `prev_count` turns 260 into 4, so the third event is joined to the first event's header and classified MySQL. |

Some differences the `L7Infer` operators reproduce have no run:

- `__NATS_HMSG` never matches. The spec itself names this typo.
- The NATS tokens must be all upper or all lower case, but the spec says case-insensitive.
- `__get_dns_type` sums the counts in host byte order, so spec scenario 2's query reads QD = 256. The DNS branch is commented out.
- `__get_amqp_type` accepts frame type 1 only, not 1, 2, 3 and 8.
- HTTP tests `GET` and `PUT` without the space the spec lists.
- The first 9 bytes of a 64 KiB AMQP body frame on channel 1 pass the
  Cassandra test (version 3, flags 0, opcode STARTUP). That test is tried
  before AMQP, so the connection is CQL for good. Spec 4.1's own order and
  signatures do the same, so this is a gap in the spec.
- A content header whose body size is 4 GiB or more is reported wrong by
  both outcomes of the undefined `<< 32`: the high half is dropped or ORed
  into the low half. `QueueSpec` shows the two outcomes agree with the
  written size below 4 GiB.
- An allocation that returns NULL makes `amqp_parse_frame` return
  `STATE_INVALID` for a whole frame, and the extraction loop stops. The
  whole frames behind it wait for the next data event (`NothingLeftBehind`
  shows that event drains them). If the failure hits the peer's last event,
  the frames are never extracted. With weak fairness on delivery, TLC finds
  `<>(every frame taken)` violated by a single Channel.Open event whose
  `init_amqp_msg` fails.
- Spec 4.6 and 7 say a full record queue drops the oldest record and
  increments a counter. `add_match_record` drops the newest and counts
  nothing (`RecordBufferKeepsEarliest` pins down what it keeps).
- A record dropped because the buffer is full, or because an allocation of
  `add_match_record` failed, is freed with `free_amqp_record`, which does not
  free `req_msg` and `resp_msg`. Their frame slots are already NULL, so both
  messages leak.

Each property of a passing run has a mutant in `PROJECT.json`. A mutant is a
variant of one code operator that makes a plausible slip:

- a cursor advance one byte short or long;
- the `frame_data` malloc done before the cursor advance;
- a frame taken as whole only when more bytes than its size are there;
- little-endian reads;
- no capacity check;
- a record buffer taken as full one record early;
- a response slot not emptied;
- only one cursor advanced;
- `l7_role` derived before the test that `get_l7_protocol` hit;
- the Mongo response-to test inverted;
- the carried header compared with count + 4 instead of count.

TLC finds the property violated under each mutant.

## Bounds

- **`MCAmqpStream`.** Up to 3 frames of 6 kinds, chunks of 1..24 bytes, which
  covers every split. The stuck threshold is 5. One allocation may fail, at
  an event's first or second parse call. That is enough for a failed frame
  with a whole frame behind it in the same event, and for a failed event
  followed by a clean one. The field run writes one or two of Exchange.Declare,
  Basic.Publish and a heartbeat.
- **`MCAmqpConn`.** The probe runs beside the client, which is the most common
  deployment.
  - **Channels.** Channels 1 and 2 carry Channel.Open (client) and
    Channel.Close (either peer). Channel 0 carries heartbeats. Peers keep
    per-channel open state, so only legal AMQP sequences are written.
  - **Frame budget.** At most 6 frames in total, and the record buffer holds 2.
    Six frames allow a lost request, a close and a reopen on one channel, or
    two overlapping exchanges on two channels with two matcher passes. That is
    the shortest witness of each matcher hazard. Six frames also make three
    pairs, one more than the buffer holds, so the buffer-full drop happens
    within the bound.
  - **Record allocation.** In the passing run one record allocation may
    return NULL, at any pair of any pass. The violation runs allow none, so
    that their traces show only the hazard they are about.
  - **Probe start.** `started \in BOOLEAN` lets the probe attach before or
    after the protocol header.
  - **Enabled protocols.** Only AMQP is enabled in the inferrer.
- **`MCL7Tracker`.** Four events per behaviour. Three is the shortest
  witness of a stale carry-over: a header, an event whose length is 4 mod 256,
  then the body. The fourth lets another event of either direction come
  between a header and its body, or a second header replace the first. Two masks are used: all protocols, which is what
  `PROTO_ALL_ENABLE` gives, and a partial one, so a disabled protocol's buffer
  is on offer. Events are at most 1024 bytes, the size spec 4.1 calls enough,
  so the `& L7_DATA_BUFFER_IDX_MASK` reads are exact. A longer event is a
  listed hazard. The model has 55,642 distinct states.

## Fairness

No liveness property is checked by a run. The matcher runs when the event
loop decides to, with no timer in this repository, so nothing obliges a pass
to happen. Every finite run is a legal prefix, and the runs set
`CHECK_DEADLOCK FALSE` because the peers' traffic is bounded and a finished
behaviour stops. The same holds for `L7Tracker`: events come when the kernel
delivers them, and the run stops after `MAX_EVENTS`.

Weak fairness on delivery (spec section 5: the probe handles every event it
is given) would justify `<>(every written frame taken)` for `AmqpStream`.
That property fails, by the stranding listed above, so it is stated as a
difference, and the run checks the step property `NothingLeftBehind`
instead. The weaker property that holds, that every frame is eventually
taken whenever bytes are still to come after a failure, was tried under
that fairness. On the `amqp_stream` instance TLC ran for more than 30
minutes, so it is not a run. `NothingLeftBehind` gives the step that
property needs: the first data event without a failure drains every whole
frame. Liveness on `AmqpConn` is also beyond the run limits: its
safety run alone has about 1.7 million states.

## Not modelled, and the plan

Not modelled, for now:

- **`read_short_str`'s own malloc.** A NULL there leaves the field NULL; the
  model reads every string.
- **Memory ownership and `free`.** No property here is about leaks or double
  frees. The leak of a dropped record's messages is listed as a hazard and a
  difference without a run.
- **Tracker lifecycle.** OPEN, CLOSE and idle, which are not in `src/`.
- **Concurrent classification.** `update_sock_conn_proto` is a check-then-set
  on `protocol` with no lock. If two CPUs run it for one socket, both may see
  `PROTO_UNKNOW` and the later write wins. The programs that call it are not
  in `src/`, so the models take each call as one atomic step. This is listed
  as a hazard with no property.
- **`__get_amqp_type` used before its definition.** `get_l7_protocol`
  (l7.h:814) calls it, and its static definition comes only at l7.h:825, with
  no declaration before. A C99 compiler rejects the implicit declaration, or
  reports a static declaration following a non-static one. The models assume
  the header compiles with the AMQP branch as written.

Plan for later sittings, most important first:

1. **Record-buffer drop policy.** A run comparing it with the spec's "drop
   oldest and count".
2. **Raw buffer cap and compaction** (spec-modelled), and the stream reset
   with respect to the frame queue.
3. **Events longer than 1024 bytes** in `MCL7Tracker`, for the index mask of
   the Redis and NATS end-of-buffer test.
