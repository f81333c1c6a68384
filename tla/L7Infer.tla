------------------------------ MODULE L7Infer ------------------------------
(***************************************************************************)
(* The protocol inferrer of include/l7.h: one operator per __get_*_type     *)
(* signature test and get_l7_protocol, which tries the enabled tests in    *)
(* its fixed priority order.  A buffer is a sequence of byte values 0..255 *)
(* whose length is the event's count; buf[i] of the C code is At(buf, i).  *)
(* The operators are pure, except that get_l7_protocol also returns the    *)
(* MySQL carry-over fields (prev_count, prev_buf) of sock_conn->info that  *)
(* its MySQL branch writes.                                                *)
(***************************************************************************)
EXTENDS Integers, SequencesExt, Bitwise

\* enum proto_type_t, message_type_t, l7_direction_t, l7_role_t
PROTO_UNKNOW == "proto_unknown"
PROTO_HTTP   == "http"
PROTO_MYSQL  == "mysql"
PROTO_PGSQL  == "pgsql"
PROTO_DNS    == "dns"
PROTO_REDIS  == "redis"
PROTO_NATS   == "nats"
PROTO_CQL    == "cql"
PROTO_MONGO  == "mongo"
PROTO_CRPC   == "crpc"
PROTO_AMQP   == "amqp"
MESSAGE_UNKNOW   == "unknown"
MESSAGE_REQUEST  == "request"
MESSAGE_RESPONSE == "response"
L7_EGRESS  == "egress"
L7_INGRESS == "ingress"
L7_UNKNOW == "l7_unknown"
L7_CLIENT == "l7_client"
L7_SERVER == "l7_server"

\* HTTP_ENABLE .. AMQP_ENABLE and PROTO_ALL_ENABLE
ENABLE_BIT ==
  PROTO_HTTP :> 1 @@ PROTO_DNS :> 2 @@ PROTO_REDIS :> 4 @@ PROTO_MYSQL :> 8
  @@ PROTO_PGSQL :> 16 @@ PROTO_MONGO :> 64 @@ PROTO_CQL :> 128
  @@ PROTO_NATS :> 256 @@ PROTO_CRPC :> 512 @@ PROTO_AMQP :> 1024
PROTO_ALL_ENABLE == 65535

\* L7_DATA_BUFFER_MAXSIZE; "& L7_DATA_BUFFER_IDX_MASK" is "% MAXSIZE".
L7_DATA_BUFFER_MAXSIZE == 1024
IdxMask(i) == i % L7_DATA_BUFFER_MAXSIZE

----------------------------------------------------------------------------
\* Byte access and the casts the tests make (x86: little-endian loads).
At(buf, i) == buf[i + 1]
U16Le(buf, i) == At(buf, i) + 256 * At(buf, i + 1)
U24Le(buf, i) == U16Le(buf, i) + 65536 * At(buf, i + 2)
\* (int) load: the top byte is sign-extended.
I32Le(buf, i) ==
  U24Le(buf, i) + 16777216 * (IF At(buf, i + 3) >= 128 THEN At(buf, i + 3) - 256
                              ELSE At(buf, i + 3))
U16Be(buf, i) == 256 * At(buf, i) + At(buf, i + 1)
U32Be(buf, i) == 65536 * U16Be(buf, i) + U16Be(buf, i + 2)

\* Character constants: 'A'..'Z' are 65..90 and 'a'..'z' are 97..122.
LETTERS == <<"A","B","C","D","E","F","G","H","I","J","K","L","M",
             "N","O","P","Q","R","S","T","U","V","W","X","Y","Z">>
Ord(c) == 64 + SelectInSeq(LETTERS, LAMBDA x : x = c)
Word(cs) == [k \in DOMAIN cs |-> Ord(cs[k])]
Lower(w) == [k \in DOMAIN w |-> w[k] + 32]
CR == 13
LF == 10

\* The last two bytes, read through the index mask, are "\r\n".
EndsWithCRLF(buf) ==
  /\ At(buf, IdxMask(Len(buf) - 2)) = CR
  /\ At(buf, IdxMask(Len(buf) - 1)) = LF

----------------------------------------------------------------------------
\* __get_http_type: 16 bytes or more starting with a method name.
HTTP_METHODS ==
  { Word(<<"G","E","T">>), Word(<<"H","E","A","D">>),
    Word(<<"P","O","S","T">>), Word(<<"P","U","T">>),
    Word(<<"D","E","L","E","T","E">>) }
get_http_type(buf) ==
  IF Len(buf) >= 16 /\ \E m \in HTTP_METHODS : IsPrefix(m, buf)
  THEN MESSAGE_REQUEST ELSE MESSAGE_UNKNOW

\* __get_redis_type and __IS_REDIS_COMMAND: '+' '-' ':' '$' '*'
REDIS_COMMANDS == {43, 45, 58, 36, 42}
get_redis_type(buf) ==
  IF Len(buf) >= 6 /\ At(buf, 0) \in REDIS_COMMANDS /\ EndsWithCRLF(buf)
  THEN MESSAGE_REQUEST ELSE MESSAGE_UNKNOW

\* __get_dns_type: rr is the u16 sum of four host-order u16 loads.
get_dns_type(buf) ==
  LET qr   == At(buf, 2) & 128
      zero == At(buf, 3) & 112
      rr   == (U16Le(buf, 4) + U16Le(buf, 6) + U16Le(buf, 8)
                + U16Le(buf, 10)) % 65536
  IN IF Len(buf) < 12 \/ Len(buf) > 512 \/ zero # 0 \/ rr > 25
     THEN MESSAGE_UNKNOW
     ELSE IF qr = 0 THEN MESSAGE_REQUEST ELSE MESSAGE_RESPONSE

(***************************************************************************)
(* The __NATS_* macros, in the order __get_nats_type tries them.  A macro  *)
(* needs count >= the token's length and compares buf[b] with the token's  *)
(* character k for each <<b, k>> of its checks, all in upper case or all   *)
(* in lower case.  __NATS_HMSG compares buf[2] with both 'S' and 'G'.      *)
(***************************************************************************)
Checks(n) == {<<k, k>> : k \in 0 .. n - 1}
NatsMacro(w, checks, type) == [word |-> w, checks |-> checks, type |-> type]
NATS_MACROS ==
  << NatsMacro(Word(<<"C","O","N","N","E","C","T">>), Checks(7), MESSAGE_REQUEST),
     NatsMacro(Word(<<"I","N","F","O">>), Checks(4), MESSAGE_RESPONSE),
     NatsMacro(Word(<<"S","U","B">>), Checks(3), MESSAGE_REQUEST),
     NatsMacro(Word(<<"U","N","S","U","B">>), Checks(5), MESSAGE_RESPONSE),
     NatsMacro(Word(<<"P","U","B">>), Checks(3), MESSAGE_REQUEST),
     NatsMacro(Word(<<"H","P","U","B">>), Checks(4), MESSAGE_REQUEST),
     NatsMacro(Word(<<"M","S","G">>), Checks(3), MESSAGE_RESPONSE),
     NatsMacro(Word(<<"H","M","S","G">>), {<<0,0>>, <<1,1>>, <<2,2>>, <<2,3>>},
               MESSAGE_RESPONSE) >>
NatsMacroHits(buf, m) ==
  /\ Len(buf) >= Len(m.word)
  /\ \E w \in {m.word, Lower(m.word)} :
        \A c \in m.checks : At(buf, c[1]) = w[c[2] + 1]
get_nats_type(buf) ==
  LET i == SelectInSeq(NATS_MACROS, LAMBDA m : NatsMacroHits(buf, m))
  IN IF Len(buf) < 3 \/ ~EndsWithCRLF(buf) \/ i = 0
     THEN MESSAGE_UNKNOW ELSE NATS_MACROS[i].type

\* __get_cql_type and its __CQL_OP_* opcodes
CQL_REQUEST_OPS  == {11, 13, 15, 1, 5, 7, 9, 10}
CQL_RESPONSE_OPS == {2, 0, 6, 8, 12, 3, 14, 16}
get_cql_type(buf) ==
  LET version == At(buf, 0) & 127
      flags   == At(buf, 1)
      opcode  == At(buf, 4)
      request == (At(buf, 0) & 128) = 0
  IN IF Len(buf) < 9 \/ version < 3 \/ version > 5 \/ (flags & 240) # 0
     THEN MESSAGE_UNKNOW
     ELSE IF opcode \in CQL_REQUEST_OPS
     THEN IF request THEN MESSAGE_REQUEST ELSE MESSAGE_UNKNOW
     ELSE IF opcode \in CQL_RESPONSE_OPS /\ ~request
     THEN MESSAGE_RESPONSE ELSE MESSAGE_UNKNOW

\* __get_mongo_type and its __MONGO_OP_* opcodes; p = (int *)buf.
MONGO_OPS == (2001 .. 2007) \cup {2012, 2013}
get_mongo_type_swapped(buf) ==
  IF Len(buf) < 16 \/ I32Le(buf, 4) < 0 \/ I32Le(buf, 12) \notin MONGO_OPS
  THEN MESSAGE_UNKNOW
  ELSE IF I32Le(buf, 8) = 0 THEN MESSAGE_RESPONSE ELSE MESSAGE_REQUEST
get_mongo_type(buf) ==
  IF Len(buf) < 16 \/ I32Le(buf, 4) < 0 \/ I32Le(buf, 12) \notin MONGO_OPS
  THEN MESSAGE_UNKNOW
  ELSE IF I32Le(buf, 8) = 0 THEN MESSAGE_REQUEST ELSE MESSAGE_RESPONSE

\* __get_pgsql_type: tag 'Q', 'P' or 'B' followed by '\0'.
get_pgsql_type(buf) ==
  IF Len(buf) >= 5 /\ At(buf, 0) \in {Ord("Q"), Ord("P"), Ord("B")} /\ At(buf, 1) = 0
  THEN MESSAGE_REQUEST ELSE MESSAGE_UNKNOW

\* __get_crpc_type: the length test joins its two mismatches with &&, and
\* request_flag (buf[9] & 0x80) is compared with 1.
get_crpc_type(buf) ==
  LET count        == Len(buf)
      msg_len      == U32Be(buf, 2)
      head_len     == U16Be(buf, 6)
      request_flag == At(buf, 9) & 128
      msg_fmt      == At(buf, 9) & 28
  IN IF \/ count < 103
        \/ At(buf, 0) # 26 \/ At(buf, 1) # 25
        \/ At(buf, 8) \notin {1, 2}
        \/ msg_len # count - 6 /\ head_len # count - 8
     THEN MESSAGE_UNKNOW
     ELSE IF msg_fmt = 0 /\ request_flag = 1 THEN MESSAGE_REQUEST
          ELSE MESSAGE_UNKNOW

(***************************************************************************)
(* __get_mysql_type.  The carried header is used when the previous event   *)
(* left prev_count = 4 and its four bytes, read as a u32, equal count; as  *)
(* count < 2^24 that is: top byte 0 and 24-bit length count.              *)
(* "len & 0x00ffffff" is the 24-bit little-endian length U24Le.            *)
(***************************************************************************)
use_prev_buf_data_count(buf, prev_count, prev_buf) ==
  prev_count = 4 /\ At(prev_buf, 3) = 0 /\ U24Le(prev_buf, 0) = Len(buf) + 4
use_prev_buf(buf, prev_count, prev_buf) ==
  prev_count = 4 /\ At(prev_buf, 3) = 0 /\ U24Le(prev_buf, 0) = Len(buf)
MYSQL_COMMANDS == {3, 11, 22, 23, 25}
get_mysql_type(buf, prev_count, prev_buf) ==
  LET use        == use_prev_buf(buf, prev_count, prev_buf)
      data_count == IF use THEN Len(buf) + 4 ELSE Len(buf)
      len == IF use THEN U24Le(prev_buf, 0) ELSE U24Le(buf, 0)
      seq == IF use THEN At(prev_buf, 3) ELSE At(buf, 3)
      com == IF use THEN At(buf, 0) ELSE At(buf, 4)
  IN IF data_count < 5 \/ seq # 0 \/ len = 0 \/ len > 16 * 1024 * 1024
        \/ com \notin MYSQL_COMMANDS
     THEN MESSAGE_UNKNOW ELSE MESSAGE_REQUEST

\* __get_amqp_type: the protocol header, or a first byte of 1 (method frame).
AMQP_HEADER == Word(<<"A","M","Q","P">>) \o <<0, 0, 9, 1>>
get_amqp_type(buf) ==
  IF \/ Len(buf) >= 8 /\ IsPrefix(AMQP_HEADER, buf)
     \/ Len(buf) >= 7 /\ At(buf, 0) = 1
  THEN MESSAGE_REQUEST ELSE MESSAGE_UNKNOW

----------------------------------------------------------------------------
\* get_l7_protocol: the order of its branches (DNS is commented out).
\* The assignment of a size_t to the u8 sock_conn->info.prev_count.
AsU8(x) == x % 256

PRIORITY == <<PROTO_HTTP, PROTO_PGSQL, PROTO_REDIS, PROTO_CRPC, PROTO_NATS,
              PROTO_CQL, PROTO_MONGO, PROTO_MYSQL, PROTO_AMQP>>
Rank(p) == SelectInSeq(PRIORITY, LAMBDA q : q = p)

\* "if (flags & X_ENABLE)"
Enabled(flags, p) == (flags & ENABLE_BIT[p]) # 0

\* The __get_*_type a branch calls.
TypeOf(p, buf, prev_count, prev_buf) ==
  CASE p = PROTO_HTTP  -> get_http_type(buf)
    [] p = PROTO_PGSQL -> get_pgsql_type(buf)
    [] p = PROTO_REDIS -> get_redis_type(buf)
    [] p = PROTO_CRPC  -> get_crpc_type(buf)
    [] p = PROTO_NATS  -> get_nats_type(buf)
    [] p = PROTO_CQL   -> get_cql_type(buf)
    [] p = PROTO_MONGO -> get_mongo_type(buf)
    [] p = PROTO_MYSQL -> get_mysql_type(buf, prev_count, prev_buf)
    [] p = PROTO_AMQP  -> get_amqp_type(buf)

(***************************************************************************)
(* get_l7_protocol: the first enabled branch whose test does not return    *)
(* MESSAGE_UNKNOW gives (proto, type) and ret 0; none gives ret -1.  The   *)
(* MySQL branch, when it is reached, sets prev_count to count truncated to *)
(* a u8 and copies a 4-byte buffer into prev_buf, whatever its test says.  *)
(* carried records whether that test used the carried header.             *)
(***************************************************************************)
get_l7_protocol(buf, flags, prev_count, prev_buf) ==
  LET hit   == SelectInSeq(PRIORITY, LAMBDA p :
                  Enabled(flags, p) /\ TypeOf(p, buf, prev_count, prev_buf) # MESSAGE_UNKNOW)
      mysql == Enabled(flags, PROTO_MYSQL) /\ (hit = 0 \/ hit >= Rank(PROTO_MYSQL))
  IN [ret        |-> IF hit = 0 THEN -1 ELSE 0,
      proto      |-> IF hit = 0 THEN PROTO_UNKNOW ELSE PRIORITY[hit],
      type       |-> IF hit = 0 THEN MESSAGE_UNKNOW
                     ELSE TypeOf(PRIORITY[hit], buf, prev_count, prev_buf),
      prev_count |-> IF mysql THEN AsU8(Len(buf)) ELSE prev_count,
      prev_buf   |-> IF mysql /\ Len(buf) = 4 THEN buf ELSE prev_buf,
      carried    |-> mysql /\ use_prev_buf(buf, prev_count, prev_buf)]

====
