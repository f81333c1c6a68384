------------------------------ MODULE AmqpWire ------------------------------
(***************************************************************************)
(* The AMQP 0-9-1 frame format as l7probe's AMQP parser reads it, and the  *)
(* parser's two entry points as pure operators:                            *)
(*   amqp_find_frame_boundary and amqp_parse_frame                         *)
(* (src/l7probe/protocol/amqp/parser/amqp_parser.c), together with the     *)
(* enums of src/l7probe/protocol/amqp/model/amqp_msg_format.h.             *)
(*                                                                         *)
(* A byte is a digit in radix BYTE.  The parser's big-endian uint16 and    *)
(* uint32 reads are 2- and 4-digit numbers, and its uint32 arithmetic on   *)
(* payload_size wraps at BYTE^4, as the C code's wraps at 2^32.  The frame *)
(* end byte 0xCE and the protocol header "AMQP\0\0\x09\x01" are given as   *)
(* constants in that radix.                                                *)
(*                                                                         *)
(* Buffers are TLA+ sequences; a C offset p (0-based, relative to the      *)
(* buffer start) is the sequence index p + 1.                              *)
(***************************************************************************)
EXTENDS Integers, Sequences, Bitwise

CONSTANTS
  BYTE,            \* radix of one byte
  FRAME_END_BYTE,  \* AMQP_FRAME_END (0xCE)
  PROTOCOL_HEADER  \* AMQP_PROTOCOL_HEADER, 8 bytes

ASSUME BYTE \in Nat /\ BYTE > 8
ASSUME PROTOCOL_HEADER \in [1..8 -> 0..(BYTE - 1)]

Byte == 0 .. (BYTE - 1)

\* uint32_t arithmetic wraps modulo 2^32: here BYTE^4.
U32_MOD == BYTE ^ 4

\* enum amqp_frame_type
AMQP_FRAME_METHOD    == 1
AMQP_FRAME_HEADER    == 2
AMQP_FRAME_BODY      == 3
AMQP_FRAME_HEARTBEAT == 8
AMQP_FRAME_UNKNOWN   == 0

ASSUME FRAME_END_BYTE \in Byte \ {AMQP_FRAME_METHOD, AMQP_FRAME_HEADER,
                                  AMQP_FRAME_BODY, AMQP_FRAME_HEARTBEAT}

\* enum amqp_class_type
AMQP_CLASS_CONNECTION == 10
AMQP_CLASS_CHANNEL    == 20
AMQP_CLASS_EXCHANGE   == 40
AMQP_CLASS_QUEUE      == 50
AMQP_CLASS_BASIC      == 60

\* enum amqp_method_type: one flat namespace, so values repeat across
\* classes (METHOD_CONNECTION_OPEN = METHOD_CHANNEL_CLOSE = 40).
METHOD_CONNECTION_START     == 10
METHOD_CONNECTION_START_OK  == 11
METHOD_CONNECTION_SECURE    == 20
METHOD_CONNECTION_SECURE_OK == 21
METHOD_CONNECTION_TUNE      == 30
METHOD_CONNECTION_TUNE_OK   == 31
METHOD_CONNECTION_OPEN      == 40
METHOD_CONNECTION_OPEN_OK   == 41
METHOD_CONNECTION_CLOSE     == 50
METHOD_CONNECTION_CLOSE_OK  == 51
METHOD_CHANNEL_OPEN         == 10
METHOD_CHANNEL_OPEN_OK      == 11
METHOD_CHANNEL_FLOW         == 20
METHOD_CHANNEL_FLOW_OK      == 21
METHOD_CHANNEL_CLOSE        == 40
METHOD_CHANNEL_CLOSE_OK     == 41
METHOD_BASIC_PUBLISH        == 40

\* enum message_type_t (src/l7probe/include/l7.h)
MESSAGE_UNKNOW   == "unknown"
MESSAGE_REQUEST  == "request"
MESSAGE_RESPONSE == "response"

\* parse_state_t results and the "no boundary" index.
STATE_SUCCESS         == "success"
STATE_NEEDS_MORE_DATA == "needs_more"
STATE_INVALID         == "invalid"
PARSER_INVALID_BOUNDARY_INDEX == -1

AMQP_HEADER_SIZE == 8

-----------------------------------------------------------------------------
(* Big-endian reads of the bytes starting at C offset p of buf.            *)
\* Variant reading the two bytes in the wrong (little-endian) order.
read_u16_be_le(buf, p) == buf[p + 2] * BYTE + buf[p + 1]

read_u16_be(buf, p) == buf[p + 1] * BYTE + buf[p + 2]

read_u32_be(buf, p) ==
  ((buf[p + 1] * BYTE + buf[p + 2]) * BYTE + buf[p + 3]) * BYTE + buf[p + 4]

(* "8 + payload_size": frame header (7) + payload + end byte, computed in  *)
(* uint32 arithmetic, both when checking that the frame is complete and    *)
(* when advancing the cursor.                                              *)
FrameSize(payload_size) == (8 + payload_size) % U32_MOD

(* "7 + payload_size": the offset of the end byte, also uint32.            *)
FrameEndOffset(payload_size) == (7 + payload_size) % U32_MOD

(* "remaining < payload_size + 8" sends amqp_parse_frame back for more    *)
(* data: the frame is whole once remaining reaches its uint32 size.        *)
\* Variant that also waits when exactly the frame's bytes are there.
HasWholeFrame_strict(remaining, payload_size) == remaining > FrameSize(payload_size)

HasWholeFrame(remaining, payload_size) == remaining >= FrameSize(payload_size)

ValidFrameTypes ==
  {AMQP_FRAME_METHOD, AMQP_FRAME_HEADER, AMQP_FRAME_BODY, AMQP_FRAME_HEARTBEAT}

\* Variant of the cursor advance that stops on the end byte.
NextPos_short(pos, payload_size) == pos + FrameEndOffset(payload_size)

\* Variant of the cursor advance that skips one byte past the end byte.
NextPos_long(pos, payload_size) == pos + FrameSize(payload_size) + 1

\* raw_data->current_pos += 8 + payload_size, the sum taken in uint32.
NextPos(pos, payload_size) == pos + FrameSize(payload_size)

IsProtocolHeaderAt(buf, pos) ==
  /\ Len(buf) - pos >= AMQP_HEADER_SIZE
  /\ SubSeq(buf, pos + 1, pos + AMQP_HEADER_SIZE) = PROTOCOL_HEADER

-----------------------------------------------------------------------------
(* get_message_type: the class-scoped request and response method tables. *)
AmqpRequestMethods ==
  {<<AMQP_CLASS_CONNECTION, m>> : m \in {METHOD_CONNECTION_START,
        METHOD_CONNECTION_SECURE, METHOD_CONNECTION_TUNE,
        METHOD_CONNECTION_OPEN, METHOD_CONNECTION_CLOSE}}
  \cup {<<AMQP_CLASS_CHANNEL, m>> : m \in {METHOD_CHANNEL_OPEN,
        METHOD_CHANNEL_FLOW, METHOD_CHANNEL_CLOSE}}

AmqpResponseMethods ==
  {<<AMQP_CLASS_CONNECTION, m>> : m \in {METHOD_CONNECTION_START_OK,
        METHOD_CONNECTION_SECURE_OK, METHOD_CONNECTION_TUNE_OK,
        METHOD_CONNECTION_OPEN_OK, METHOD_CONNECTION_CLOSE_OK}}
  \cup {<<AMQP_CLASS_CHANNEL, m>> : m \in {METHOD_CHANNEL_OPEN_OK,
        METHOD_CHANNEL_FLOW_OK, METHOD_CHANNEL_CLOSE_OK}}

get_message_type(class_id, method_id) ==
  IF <<class_id, method_id>> \in AmqpRequestMethods THEN MESSAGE_REQUEST
  ELSE IF <<class_id, method_id>> \in AmqpResponseMethods THEN MESSAGE_RESPONSE
  ELSE MESSAGE_REQUEST

-----------------------------------------------------------------------------
(* Short strings.  NULL_STR is the NULL read_short_str returns for an      *)
(* empty string.  PAST_END stands for a string whose bytes lie beyond the  *)
(* bytes received (data_len): the C code reads that memory anyway, and     *)
(* what it finds there is not determined by the stream.                    *)
NULL_STR == <<>>
PAST_END == "past_end"

ShortStr == Seq(Byte) \cup {PAST_END}

(* read_short_str(buf + at, consumed): the string and *consumed.  A length *)
(* byte past the end is itself unknown; the string is then PAST_END and    *)
(* so is every read after it, whatever *consumed became.                   *)
read_short_str(buf, at) ==
  IF at >= Len(buf) THEN [str |-> PAST_END, consumed |-> 1]
  ELSE LET len == buf[at + 1]
       IN  IF len = 0 THEN [str |-> NULL_STR, consumed |-> 1]
           ELSE IF at + 1 + len > Len(buf)
                THEN [str |-> PAST_END, consumed |-> len + 1]
           ELSE [str |-> SubSeq(buf, at + 2, at + 1 + len), consumed |-> len + 1]

(* parse_exchange(payload, offset): skip the 2 reserved bytes by adding 2  *)
(* to *offset, then read at payload + *offset, which overwrites *offset    *)
(* with the string's consumed length.  payload is a C offset into buf;     *)
(* the result is the string and the new *offset.                           *)
parse_exchange(buf, payload, offset) ==
  LET r == read_short_str(buf, payload + offset + 2)
  IN  [str |-> r.str, offset |-> r.consumed]

\* parse_queue: the same steps as parse_exchange.
parse_queue(buf, payload, offset) ==
  LET r == read_short_str(buf, payload + offset + 2)
  IN  [str |-> r.str, offset |-> r.consumed]

parse_routing_key(buf, payload, offset) ==
  LET r == read_short_str(buf, payload + offset)
  IN  [str |-> r.str, offset |-> r.consumed]

(* The string fields of a method frame at C offset d of buf, after class   *)
(* and method id (offset = 11): the class-exchange and class-queue calls   *)
(* pass data + offset with &offset; Basic.Publish passes a temp_offset     *)
(* starting at 0 and adds it to offset after each call.                    *)
MethodStrings(buf, d, cls, mth) ==
  LET none == [exchange |-> NULL_STR, queue |-> NULL_STR, routing_key |-> NULL_STR]
      e    == parse_exchange(buf, d + 11, 0)
      k    == parse_routing_key(buf, d + 11 + e.offset, e.offset)
  IN  IF cls = AMQP_CLASS_EXCHANGE
      THEN [none EXCEPT !.exchange = parse_exchange(buf, d + 11, 11).str]
      ELSE IF cls = AMQP_CLASS_QUEUE
      THEN [none EXCEPT !.queue = parse_queue(buf, d + 11, 11).str]
      ELSE IF cls = AMQP_CLASS_BASIC /\ mth = METHOD_BASIC_PUBLISH
      THEN [none EXCEPT !.exchange = e.str, !.routing_key = k.str]
      ELSE none

(* "read_u32_be(...) << 32" shifts a uint32_t by its width: undefined      *)
(* behaviour.  A build either keeps the value (x86 masks the count to 0)   *)
(* or folds the shift to 0; BUILD_SHIFT32 holds both outcomes.             *)
BUILD_SHIFT32 == {"masked", "zero"}

Shift32(x, build) == IF build = "masked" THEN x ELSE 0

\* Content header: body_size from the two big-endian halves at data + 11.
body_size(buf, d, build) ==
  Shift32(read_u32_be(buf, d + 11), build) | read_u32_be(buf, d + 15)

-----------------------------------------------------------------------------
(* struct amqp_message_s, reduced to the fields the parser sets, plus the  *)
(* number of bytes the parser advanced the cursor by for this frame.       *)
AmqpMsg == [is_protocol_header : BOOLEAN, frame_type : Nat, channel_id : Nat,
            payload_size : Nat, class_id : Nat, raw_method_id : Nat,
            msg_type : {MESSAGE_UNKNOW, MESSAGE_REQUEST, MESSAGE_RESPONSE},
            exchange : ShortStr, queue : ShortStr, routing_key : ShortStr,
            body_size : Nat, consumed : Nat]

\* init_amqp_msg: a zeroed message.
init_amqp_msg ==
  [is_protocol_header |-> FALSE, frame_type |-> AMQP_FRAME_UNKNOWN,
   channel_id |-> 0, payload_size |-> 0, class_id |-> 0, raw_method_id |-> 0,
   msg_type |-> MESSAGE_UNKNOW, exchange |-> NULL_STR, queue |-> NULL_STR,
   routing_key |-> NULL_STR, body_size |-> 0, consumed |-> 0]

ParseResult(state, msg, newPos) == [state |-> state, msg |-> msg, pos |-> newPos]

(* The outcome of the parser's two allocations: both succeed, init_amqp_msg *)
(* returns NULL, or the frame_data malloc returns NULL.                    *)
ALLOC_OK          == "ok"
ALLOC_MSG_FAILS   == "msg_null"
ALLOC_FRAME_FAILS == "frame_null"

(* The end of a successful parse: the cursor has already been advanced to *)
(* np when frame_data is allocated, and a NULL returns STATE_INVALID with  *)
(* the frame's bytes consumed.                                             *)
\* Variant that allocates frame_data before advancing the cursor.
frame_data_result_first(msg, pos, np, alloc) ==
  IF alloc = ALLOC_FRAME_FAILS THEN ParseResult(STATE_INVALID, init_amqp_msg, pos)
  ELSE ParseResult(STATE_SUCCESS, msg, np)

frame_data_result(msg, pos, np, alloc) ==
  IF alloc = ALLOC_FRAME_FAILS THEN ParseResult(STATE_INVALID, init_amqp_msg, np)
  ELSE ParseResult(STATE_SUCCESS, msg, np)

(***************************************************************************)
(* amqp_find_frame_boundary: the offset of a frame start at the cursor,    *)
(* or PARSER_INVALID_BOUNDARY_INDEX.  It only looks at the cursor itself.  *)
(***************************************************************************)
amqp_find_frame_boundary(buf, pos) ==
  LET remaining == Len(buf) - pos
      ps        == read_u32_be(buf, pos + 3)
  IN  IF remaining <= 0 THEN PARSER_INVALID_BOUNDARY_INDEX
      ELSE IF IsProtocolHeaderAt(buf, pos) THEN pos
      ELSE IF /\ remaining >= 7
              /\ buf[pos + 1] \in ValidFrameTypes
              /\ remaining >= FrameSize(ps)
              /\ buf[pos + FrameEndOffset(ps) + 1] = FRAME_END_BYTE
           THEN pos
      ELSE PARSER_INVALID_BOUNDARY_INDEX

(***************************************************************************)
(* amqp_parse_frame: parse one frame at the cursor pos of buf, with the    *)
(* allocation outcome alloc and the build's shift outcome build.  Returns  *)
(* the parse state, the message, and the cursor raw_data->current_pos.     *)
(***************************************************************************)
amqp_parse_frame(buf, pos, alloc, build) ==
  LET remaining == Len(buf) - pos
      type      == buf[pos + 1]
      ps        == read_u32_be(buf, pos + 3)
      msg       == [init_amqp_msg EXCEPT
                      !.frame_type = type,
                      !.channel_id = read_u16_be(buf, pos + 1),
                      !.payload_size = ps,
                      !.consumed = FrameSize(ps)]
      cls       == read_u16_be(buf, pos + 7)
      mth       == read_u16_be(buf, pos + 9)
      strs      == MethodStrings(buf, pos, cls, mth)
      method    == [msg EXCEPT !.class_id = cls, !.raw_method_id = mth,
                                !.msg_type = get_message_type(cls, mth),
                                !.exchange = strs.exchange, !.queue = strs.queue,
                                !.routing_key = strs.routing_key]
      header    == [msg EXCEPT !.class_id = cls,
                      !.body_size = body_size(buf, pos, build),
                      !.msg_type = MESSAGE_REQUEST]
      other     == [msg EXCEPT !.msg_type = MESSAGE_REQUEST]
      done(m)   == frame_data_result(m, pos, NextPos(pos, ps), alloc)
  IN
  IF remaining <= 0 THEN ParseResult(STATE_NEEDS_MORE_DATA, init_amqp_msg, pos)
  ELSE IF alloc = ALLOC_MSG_FAILS THEN ParseResult(STATE_INVALID, init_amqp_msg, pos)
  ELSE IF IsProtocolHeaderAt(buf, pos)
    THEN frame_data_result(
            [init_amqp_msg EXCEPT !.is_protocol_header = TRUE,
                                  !.msg_type = MESSAGE_REQUEST,
                                  !.consumed = AMQP_HEADER_SIZE],
            pos, pos + AMQP_HEADER_SIZE, alloc)
  ELSE IF remaining < 7 THEN ParseResult(STATE_NEEDS_MORE_DATA, init_amqp_msg, pos)
  ELSE IF ~HasWholeFrame(remaining, ps)
    THEN ParseResult(STATE_NEEDS_MORE_DATA, init_amqp_msg, pos)
  ELSE IF buf[pos + FrameEndOffset(ps) + 1] # FRAME_END_BYTE
    THEN ParseResult(STATE_INVALID, init_amqp_msg, pos)
  ELSE CASE type = AMQP_FRAME_METHOD /\ ps >= 4 -> done(method)
         [] type = AMQP_FRAME_HEADER /\ ps >= 14 -> done(header)
         [] type \in {AMQP_FRAME_BODY, AMQP_FRAME_HEARTBEAT} -> done(other)
         [] OTHER -> ParseResult(STATE_INVALID, init_amqp_msg, pos)

=============================================================================
