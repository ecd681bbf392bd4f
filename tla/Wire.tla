-------------------------------- MODULE Wire --------------------------------
(***************************************************************************)
(* DNS messages and their conversion from and to the form of the hickory   *)
(* library, which does the encoding to bytes: dns/wire.rs, message.rs,     *)
(* record.rs, question.rs, rdata.rs and types.rs.                          *)
(*                                                                         *)
(* hickory's form keeps codes as numbers, names as lists of labels and the *)
(* EDNS record apart; the program's keeps types and classes as enumerations *)
(* with an Unknown variant, names as text without the root dot and the     *)
(* EDNS record among the additional ones, its options as one blob.         *)
(***************************************************************************)
EXTENDS Naturals, Sequences, SequencesExt

-----------------------------------------------------------------------------
(* types.rs: every enumeration is a table of codes; a code that is not in  *)
(* it is Unknown and keeps its value.                                      *)

RecordTypeCodes ==
  [A |-> 1, NS |-> 2, CNAME |-> 5, SOA |-> 6, PTR |-> 12, MX |-> 15, TXT |-> 16, AAAA |-> 28,
   SRV |-> 33, OPT |-> 41, DS |-> 43, RRSIG |-> 46, NSEC |-> 47, DNSKEY |-> 48, NSEC3 |-> 50,
   NSEC3PARAM |-> 51, SVCB |-> 64, HTTPS |-> 65, CAA |-> 257]
RecordClassCodes == [IN |-> 1, CH |-> 3, HS |-> 4]
OpCodeCodes == [Query |-> 0, IQuery |-> 1, Status |-> 2, Notify |-> 4, Update |-> 5]
ResponseCodeCodes ==
  [NoError |-> 0, FormErr |-> 1, ServFail |-> 2, NXDomain |-> 3, NotImp |-> 4, Refused |-> 5,
   YXDomain |-> 6, YXRRSet |-> 7, NXRRSet |-> 8, NotAuth |-> 9, NotZone |-> 10]

Named(n) == [name |-> n, value |-> 0]
Unknown(v) == [name |-> "Unknown", value |-> v]
FromCode(table, v) ==
  IF \E n \in DOMAIN table : table[n] = v THEN Named(CHOOSE n \in DOMAIN table : table[n] = v)
  ELSE Unknown(v)
ToCode(table, x) == IF x.name = "Unknown" THEN x.value ELSE table[x.name]

RecordTypeFromU16(v) == FromCode(RecordTypeCodes, v)
RecordTypeToU16(t) == ToCode(RecordTypeCodes, t)
RecordClassFromU16(v) == FromCode(RecordClassCodes, v)
RecordClassToU16(c) == ToCode(RecordClassCodes, c)

-----------------------------------------------------------------------------
(* message.rs, question.rs and record.rs.                                  *)

Message0 ==
  [id |-> 0, qr |-> FALSE, opcode |-> Named("Query"), aa |-> FALSE, tc |-> FALSE, rd |-> TRUE,
   ra |-> FALSE, ad |-> FALSE, cd |-> FALSE, rcode |-> Named("NoError"),
   questions |-> <<>>, answers |-> <<>>, authority |-> <<>>, additional |-> <<>>]

SetHeader(m, h) ==
  [m EXCEPT !.id = h.id, !.qr = h.qr, !.aa = h.aa, !.tc = h.tc, !.rd = h.rd, !.ra = h.ra,
            !.ad = h.ad, !.cd = h.cd]
Question(qname, qtype, qclass) == [qname |-> qname, qtype |-> qtype, qclass |-> qclass]
ResourceRecord(name, rtype, rclass, ttl, rdata) ==
  [name |-> name, rtype |-> rtype, rclass |-> rclass, ttl |-> ttl, rdata |-> rdata]

-----------------------------------------------------------------------------
(* Names.  A label is a token; the label Escaped ends with an escaped dot, *)
(* which its text shows as a backslash and a dot.                          *)

Dot == "."
Backslash == "x\\"
Escaped == "x\\."
BadName == <<"not a name">>

\* Name::to_utf8, with the root dot.
ToUtf8(labels) ==
  IF labels = <<>> THEN <<Dot>>
  ELSE FlattenSeq([i \in 1..Len(labels) |->
         IF labels[i] = Escaped THEN <<Backslash, Dot, Dot>> ELSE <<labels[i], Dot>>])

\* Mutant: every trailing dot is trimmed.
RECURSIVE TrimAll(_)
TrimAll(t) == IF t # <<>> /\ Last(t) = Dot THEN TrimAll(Front(t)) ELSE t
UnrootedTrimmed(labels) == TrimAll(ToUtf8(labels))

\* strip_suffix('.') removes the root dot and no other.
Unrooted(labels) == LET t == ToUtf8(labels) IN IF Last(t) = Dot THEN Front(t) ELSE t

\* Name::from_utf8.  A backslash with nothing after it is no name.
RECURSIVE FromUtf8(_)
FromUtf8(t) ==
  CASE t = <<>> -> <<>>
    [] t = <<Backslash>> -> BadName
    [] OTHER ->
         LET label == IF Head(t) = Backslash THEN Escaped ELSE Head(t)
             used == (IF Head(t) = Backslash THEN 2 ELSE 1)
             rest == FromUtf8(SubSeq(t, used + 2, Len(t)))
         IN  IF rest = BadName THEN BadName ELSE <<label>> \o rest

-----------------------------------------------------------------------------
(* Record data.  Kinds with names in them, text, and everything else.      *)

NameKinds == {"CNAME", "NS", "PTR", "MX", "SRV", "SOA"}
AddressKinds == {"A", "AAAA"}

\* convert_hickory_record.  Types without a variant of their own ride along as
\* bytes; String::from_utf8_lossy replaces bytes that are no text.
ConvertRData(data) ==
  CASE data.kind \in NameKinds ->
         [kind |-> data.kind, names |-> [i \in 1..Len(data.names) |-> Unrooted(data.names[i])],
          rest |-> data.rest]
    [] data.kind = "TXT" ->
         [kind |-> "TXT", names |-> <<>>, rest |-> IF data.rest = "not utf-8" THEN "replaced" ELSE data.rest]
    [] data.kind \in AddressKinds -> data
    [] OTHER -> [kind |-> "Unknown", names |-> <<>>, rest |-> data.rest]

ConvertRecord(r) ==
  ResourceRecord(Unrooted(r.name), RecordTypeFromU16(r.rtype), RecordClassFromU16(r.rclass), r.ttl,
                 ConvertRData(r.data))

\* The options as one blob of code, length and value; a map has no order of its own.
EdnsOptionsBlob(options) ==
  FlattenSeq(SetToSeq({<<c, Len(options[c])>> \o options[c] : c \in DOMAIN options}))

OptRecord(edns) ==
  ResourceRecord(<<Dot>>, Named("OPT"), RecordClassFromU16(edns.max_payload), 0,
    [kind |-> "OPT", extended_rcode |-> edns.rcode_high, version |-> edns.version,
     flags |-> IF edns.dnssec_ok THEN 32768 ELSE 0, options |-> EdnsOptionsBlob(edns.options)])

\* Codes above 255 do not fit.
ConvertRcode(v) == IF v <= 10 THEN FromCode(ResponseCodeCodes, v)
                   ELSE Unknown(IF v > 255 THEN 255 ELSE v)

\* A record without data (rdlength 0, as in an UPDATE) is left out, and so is one whose
\* data hickory cannot write.
HasRData(r) == r.data.kind \notin {"none", "not encodable"}
Records(seq) ==
  LET kept == SelectSeq(seq, HasRData) IN [i \in 1..Len(kept) |-> ConvertRecord(kept[i])]

\* parse_message, from what hickory has decoded: its parser refuses every opcode but
\* Query, Status, Notify and Update.  The EDNS record goes last.
ConvertFromHickory(h) ==
  [SetHeader(Message0, h) EXCEPT
     !.opcode = FromCode(OpCodeCodes, h.opcode),
     !.rcode = ConvertRcode(h.rcode),
     !.questions = [i \in 1..Len(h.queries) |->
        Question(Unrooted(h.queries[i].name), RecordTypeFromU16(h.queries[i].qtype),
                 RecordClassFromU16(h.queries[i].qclass))],
     !.answers = Records(h.answers),
     !.authority = Records(h.name_servers),
     !.additional = Records(h.additionals) \o
                    [i \in 1..Len(h.edns) |-> OptRecord(h.edns[i])]]

-----------------------------------------------------------------------------
(* The way back.                                                           *)

\* set_edns_options: an option that would reach beyond the blob ends the loop; of
\* two with the same code the later one stays.
RECURSIVE SplitOptions(_)
SplitOptions(blob) ==
  IF Len(blob) < 2 \/ 2 + blob[2] > Len(blob) THEN [c \in {} |-> <<>>]
  ELSE LET rest == SplitOptions(SubSeq(blob, 3 + blob[2], Len(blob)))
           value == SubSeq(blob, 3, 2 + blob[2])
       IN  [c \in DOMAIN rest \union {blob[1]} |-> IF c \in DOMAIN rest THEN rest[c] ELSE value]

AtLeast(a, b) == IF a < b THEN b ELSE a

EdnsOf(rr) ==
  [rcode_high |-> rr.rdata.extended_rcode, version |-> rr.rdata.version,
   dnssec_ok |-> (rr.rdata.flags \div 32768) % 2 = 1,
   max_payload |-> AtLeast(RecordClassToU16(rr.rclass), 512),
   options |-> SplitOptions(rr.rdata.options)]

HasBadName(rdata) == rdata.kind \in NameKinds /\ \E i \in 1..Len(rdata.names) : FromUtf8(rdata.names[i]) = BadName

ToHickoryRecord(rr) ==
  [name |-> FromUtf8(rr.name), rtype |-> RecordTypeToU16(rr.rtype), rclass |-> RecordClassToU16(rr.rclass),
   ttl |-> rr.ttl,
   data |-> CASE rr.rdata.kind \in NameKinds ->
                   [rr.rdata EXCEPT !.names = [i \in 1..Len(@) |-> FromUtf8(@[i])]]
              [] rr.rdata.kind = "Unknown" ->
                   [kind |-> RecordTypeFromU16(RecordTypeToU16(rr.rtype)).name, names |-> <<>>, rest |-> rr.rdata.rest]
              [] OTHER -> rr.rdata]

\* Data of a kind of its own that hickory is not given leaves the record out.
HasCounterpart(rr) == rr.rdata.kind \in NameKinds \union AddressKinds \union {"TXT", "Unknown"}
ToRecords(seq) ==
  LET kept == SelectSeq(seq, HasCounterpart) IN [i \in 1..Len(kept) |-> ToHickoryRecord(kept[i])]
IsOpt(rr) == rr.rdata.kind = "OPT"

Error == [error |-> "DnsProtocol"]

\* serialize_message, up to hickory's encoding.  A question is always of class IN;
\* of several EDNS records the last one counts.
ConvertToHickory(m) ==
  LET opts == SelectSeq(m.additional, IsOpt)
      others == SelectSeq(m.additional, LAMBDA rr : ~IsOpt(rr))
      records == m.answers \o m.authority \o others
  IN
  IF \/ \E i \in 1..Len(m.questions) : FromUtf8(m.questions[i].qname) = BadName
     \/ \E i \in 1..Len(records) : FromUtf8(records[i].name) = BadName \/ HasBadName(records[i].rdata)
  THEN Error
  ELSE
  [id |-> m.id, qr |-> m.qr, aa |-> m.aa, tc |-> m.tc, rd |-> m.rd, ra |-> m.ra, ad |-> m.ad, cd |-> m.cd,
   opcode |-> IF m.opcode.name \in {"IQuery", "Unknown"} THEN 0 ELSE ToCode(OpCodeCodes, m.opcode),
   rcode |-> ToCode(ResponseCodeCodes, m.rcode),
   queries |-> [i \in 1..Len(m.questions) |->
      [name |-> FromUtf8(m.questions[i].qname), qtype |-> RecordTypeToU16(m.questions[i].qtype),
       qclass |-> RecordClassCodes.IN]],
   answers |-> ToRecords(m.answers), name_servers |-> ToRecords(m.authority),
   additionals |-> ToRecords(others),
   edns |-> IF opts = <<>> THEN <<>> ELSE <<EdnsOf(Last(opts))>>]
=============================================================================
