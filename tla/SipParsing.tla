---------------------------- MODULE SipParsing ----------------------------
(***************************************************************************)
(* The SIP parser wrapper of src/src/sipparsing.c: one reusable parser     *)
(* (openli_sip_parser_t) holding the osip message of the last packet and,  *)
(* once a session field is asked for, the SDP body parsed from it; and the *)
(* string surgery the getters do on what osip hands back (strip_quotes on  *)
(* Authorization identities, strip_sip_uri on From/To URIs).               *)
(*                                                                         *)
(* The caller (a collector thread) is not in the tree.  It feeds packets   *)
(* to parse_sip_packet, calls getters only after a return of 1, and may    *)
(* release the parser, after which it passes a NULL parser again.          *)
(*                                                                         *)
(* A string is a sequence of characters ending in NUL.  Characters are     *)
(* abstracted to what the code tests: the quote, NUL, and "a" for any      *)
(* other character; URIs use ":", ";", "?", "@" and one letter per part.   *)
(***************************************************************************)
EXTENDS Integers, Sequences, SequencesExt

CONSTANTS
  Tokens,       \* username / realm values osip returns (quotes kept)
  Hosts,        \* host parts of the URIs osip_uri_to_str_canonical builds
  MaxPackets,   \* bound: packets handed to parse_sip_packet
  NoParser, NoSdp, NoAuth, NoId, NoUri

VARIABLES
  parser,   \* the caller's openli_sip_parser_t *: NoParser or [osip, sdp]
  ret,      \* what the last parse_sip_packet returned (0 before any)
  pkt,      \* packets parsed so far; also names the osip message of each
  lastid,   \* the identity the last get_sip_*auth_identity call returned
  lasturi   \* the last URI get_sip_from_uri / get_sip_to_uri returned, and
            \* the canonical URI it was made from

vars == <<parser, ret, pkt, lastid, lasturi>>

Q == "q"      \* the '"' character
NUL == "nul"  \* the '\0' character

Hdrs == {"authorizations", "proxy_authorizations"}

\* What osip's message can carry of interest: a body, and one Authorization
\* or Proxy-Authorization header with its username and realm.
Contents ==
  [body : BOOLEAN, auth : {NoAuth} \cup [hdr : Hdrs, user : Tokens, realm : Tokens]]

\* The osip message parsed from packet n: each string is a NUL-terminated
\* buffer of its own, which strip_quotes may later write into.
Message(n, c) ==
  [pkt |-> n, body |-> c.body,
   auth |-> IF c.auth = NoAuth THEN NoAuth
            ELSE [hdr |-> c.auth.hdr,
                  user |-> c.auth.user \o <<NUL>>, utok |-> c.auth.user,
                  realm |-> c.auth.realm \o <<NUL>>, rtok |-> c.auth.realm]]

\* The From and To URIs as osip_uri_to_str_canonical prints them: scheme
\* ':' [user '@'] host [':' port] [';' param] ['?' header].
UriParts ==
  [user : {<<>>, <<"u", "@">>}, host : Hosts, port : {<<>>, <<":", "p">>},
   param : {<<>>, <<";", "r">>}, hdrs : {<<>>, <<"?", "g">>}]
Uri(p) == <<"s", ":">> \o p.user \o p.host \o p.port \o p.param \o p.hdrs

\* A message that osip_message_init created but nothing was parsed into.
Blank(n) == Message(n, [body |-> FALSE, auth |-> NoAuth])

-----------------------------------------------------------------------------
(* Strings.                                                                *)

\* Mutant: the length taken one past the string, its NUL counted.
StrLenCountsNul(buf, off) ==
  SelectInSubSeq(buf, off, Len(buf), LAMBDA ch : ch = NUL) - off + 1

\* strlen from offset off.
StrLen(buf, off) == SelectInSubSeq(buf, off, Len(buf), LAMBDA ch : ch = NUL) - off

\* The C string starting at offset off.
CStr(buf, off) == SubSeq(buf, off, off + StrLen(buf, off) - 1)

\* Mutant: the trailing quote stripped without checking it is one.
StripQuotesBlind(buf) ==
  LET len == StrLen(buf, 1)
  IN  IF buf[1] = Q
      THEN [buf |-> [buf EXCEPT ![len] = NUL], off |-> 2, len |-> len - 2]
      ELSE [buf |-> buf, off |-> 1, len |-> len]

\* strip_quotes on one field: the getter has just set the pointer to the
\* start of osip's buffer and the length to its strlen.  A leading quote is
\* skipped; a trailing quote, if the last character is one, is overwritten
\* with NUL in osip's own buffer, so a later call sees it gone.
StripQuotes(buf) ==
  LET len == StrLen(buf, 1)
      trail == buf[len] = Q
  IN  IF buf[1] = Q
      THEN [buf |-> IF trail THEN [buf EXCEPT ![len] = NUL] ELSE buf,
            off |-> 2,
            len |-> (IF trail THEN len - 1 ELSE len) - 1]
      ELSE [buf |-> buf, off |-> 1, len |-> len]

\* Mutant: the port search starts at the scheme's colon itself.
StripSearchFromColon(u) ==
  LET first == SelectInSeq(u, LAMBDA ch : ch = ":")
      next(c, s) == SelectInSubSeq(s, first, Len(s), LAMBDA ch : ch = c)
      cut(s, i) == IF i = 0 THEN s ELSE SubSeq(s, 1, i - 1)
      semi == cut(u, next(";", u))
  IN  IF first = 0 THEN <<>>
      ELSE IF next(":", u) # 0 THEN cut(u, next(":", u))
      ELSE cut(semi, next("?", semi))

\* strip_sip_uri: from the colon ending the scheme, cut at the next ':' (a
\* port) and return; otherwise cut at the first ';', then at the first '?'
\* of what is left.  NULL (here <<>>) when there is no colon at all.
StripSipUri(u) ==
  LET first == SelectInSeq(u, LAMBDA ch : ch = ":")
      next(c, s) == SelectInSubSeq(s, first + 1, Len(s), LAMBDA ch : ch = c)
      cut(s, i) == IF i = 0 THEN s ELSE SubSeq(s, 1, i - 1)
      semi == cut(u, next(";", u))
  IN  IF first = 0 THEN <<>>
      ELSE IF next(":", u) # 0 THEN cut(u, next(":", u))
      ELSE cut(semi, next("?", semi))

-----------------------------------------------------------------------------
(* parse_sip_packet.                                                       *)

\* The return value for each way a packet can go: no transport header or
\* not TCP/UDP (-1), a truncated header, no payload or a CRLF / zero
\* keep-alive (0), osip failing to parse (-1), a SIP message (1).
Verdict == [notransport |-> -1, otherproto |-> -1, shorthdr |-> 0,
            nopayload |-> 0, keepalive |-> 0, garbled |-> -1, sip |-> 1]

\* Mutant: a reused parser keeps the SDP of the previous message.
ParsedStateKeepSdp(p, m, heldread) ==
  IF p # NoParser /\ ~heldread THEN p
  ELSE [osip |-> m, sdp |-> IF p = NoParser THEN NoSdp ELSE p.sdp]

\* The parser after lines 46-61 and osip_message_init, for a new message m.
\* With a parser passed in, the code tests p->osip before assigning p (it
\* is uninitialised there): if what it reads is nonzero, p becomes the
\* parser and its message and SDP are freed; if zero, p stays wild and the
\* new message is created and parsed elsewhere, the parser keeping the old
\* one.  heldread is that read's outcome.
ParsedState(p, m, heldread) ==
  IF p # NoParser /\ ~heldread THEN p
  ELSE [osip |-> m, sdp |-> NoSdp]

\* parse_sip_packet on packet pkt + 1, of any kind and content.
ParsePacket ==
  /\ pkt < MaxPackets
  /\ \E kind \in DOMAIN Verdict, c \in Contents, heldread \in BOOLEAN :
       LET m == IF Verdict[kind] = 1 THEN Message(pkt + 1, c) ELSE Blank(pkt + 1)
       IN  /\ parser' = ParsedState(parser, m, heldread)
           /\ ret' = Verdict[kind]
  /\ pkt' = pkt + 1
  /\ lastid' = NoId
  /\ UNCHANGED lasturi

\* release_sip_parser; the caller then holds NULL.
ReleaseParser ==
  /\ parser # NoParser
  /\ parser' = NoParser
  /\ ret' = 0
  /\ lastid' = NoId
  /\ UNCHANGED <<pkt, lasturi>>

-----------------------------------------------------------------------------
(* Getters, called only after parse_sip_packet returned 1.                 *)

\* parse_sdp_body: sdp_message_init, then the body parsed (-1 and an empty
\* SDP left in place when the message has none).
SdpParse(m) == [msg |-> m.pkt, parsed |-> m.body]

\* get_sip_session_id / _address / _username / _version, get_sip_media_
\* ipaddr / _port: the SDP is parsed on first use only.
GetSessionField ==
  /\ ret = 1 /\ parser # NoParser /\ parser.sdp = NoSdp
  /\ parser' = [parser EXCEPT !.sdp = SdpParse(parser.osip)]
  /\ UNCHANGED <<ret, pkt, lastid, lasturi>>

\* Index `index` of header list hdr: 0 headers returns 0, an index past the
\* count -1, otherwise username and realm are taken from osip, measured
\* with strlen and passed through strip_quotes.
IdentityFrom(hdr, index) ==
  LET m == parser.osip
      count == IF m.auth # NoAuth /\ m.auth.hdr = hdr THEN 1 ELSE 0
      u == StripQuotes(m.auth.user)
      r == StripQuotes(m.auth.realm)
  IN  /\ ret = 1 /\ parser # NoParser
      /\ \/ /\ index >= count
            /\ lastid' = NoId
            /\ UNCHANGED parser
         \/ /\ index < count
            /\ parser' = [parser EXCEPT !.osip.auth.user = u.buf, !.osip.auth.realm = r.buf]
            /\ lastid' = [user |-> CStr(u.buf, u.off), userlen |-> u.len, utok |-> m.auth.utok,
                          realm |-> CStr(r.buf, r.off), realmlen |-> r.len, rtok |-> m.auth.rtok]
      /\ UNCHANGED <<ret, pkt, lasturi>>

\* get_sip_auth_identity.
GetSipAuthIdentity(index) == IdentityFrom("authorizations", index)

\* get_sip_proxy_auth_identity.
GetSipProxyAuthIdentity(index) == IdentityFrom("proxy_authorizations", index)

\* get_sip_from_uri / get_sip_to_uri: the header's URI printed in canonical
\* form (a fresh string for the caller), then strip_sip_uri.  The URI is
\* any the message can carry; the parser is not changed.
GetSipUri ==
  /\ ret = 1 /\ parser # NoParser
  /\ \E p \in UriParts : lasturi' = [uri |-> p, got |-> StripSipUri(Uri(p))]
  /\ UNCHANGED <<parser, ret, pkt, lastid>>

GetSipFromUri == GetSipUri

GetSipToUri == GetSipUri

Init ==
  /\ parser = NoParser
  /\ ret = 0
  /\ pkt = 0
  /\ lastid = NoId
  /\ lasturi = NoUri

Next ==
  \/ ParsePacket
  \/ ReleaseParser
  \/ GetSessionField
  \/ GetSipFromUri
  \/ GetSipToUri
  \/ \E index \in 0..1 : GetSipAuthIdentity(index) \/ GetSipProxyAuthIdentity(index)

Spec == Init /\ [][Next]_vars

-----------------------------------------------------------------------------
(* Reference definitions.                                                  *)

\* A quoted token's content: osip keeps the quotes of a quoted-string.
Unquote(tok) ==
  IF Len(tok) >= 2 /\ tok[1] = Q /\ tok[Len(tok)] = Q THEN SubSeq(tok, 2, Len(tok) - 1)
  ELSE tok

\* The address a canonical URI names (the getters' "strip any extra uri
\* components (e.g. port numbers, additional arguments etc.)").
Address(p) == <<"s", ":">> \o p.user \o p.host

-----------------------------------------------------------------------------
(* Properties.                                                             *)

Identity == [user : Seq({Q, "a"}), userlen : Int, utok : Tokens,
             realm : Seq({Q, "a"}), realmlen : Int, rtok : Tokens]

TypeOK ==
  /\ parser = NoParser \/ parser.sdp = NoSdp \/ parser.sdp.parsed \in BOOLEAN
  /\ ret \in {-1, 0, 1}
  /\ pkt \in 0..MaxPackets
  /\ lastid = NoId \/ lastid \in Identity
  /\ lasturi = NoUri \/ lasturi.uri \in UriParts

\* The SDP a parser caches is the SDP of the message it holds
\* (parse_sip_packet freeing the old SDP and clearing p->sdp when it reuses
\* the parser; parse_sdp_body run lazily on parser->osip): session fields
\* read after any sequence of parses and getters describe the packet whose
\* headers the parser holds.
SdpOfCurrentMessage ==
  parser # NoParser /\ parser.sdp # NoSdp => parser.sdp.msg = parser.osip.pkt

\* get_sip_from_uri / get_sip_to_uri return the address only
\* (strip_sip_uri's strchr passes after the scheme's colon): whatever the
\* URI carries of user, port, parameters and headers, what the caller gets
\* is scheme ':' [user '@'] host.
StrippedUriIsAddress == lasturi # NoUri => lasturi.got = Address(lasturi.uri)

\* An identity get_sip_auth_identity / get_sip_proxy_auth_identity returns
\* is the header's username and realm without their quotes, with the
\* lengths of those strings, however often the same message is asked
\* (strip_quotes overwriting the closing quote in osip's buffer, and its
\* comment's care for the second call that then sees only the opening one).
AuthIdentityUnquoted ==
  lastid # NoId =>
    /\ lastid.user = Unquote(lastid.utok) /\ lastid.userlen = Len(lastid.user)
    /\ lastid.realm = Unquote(lastid.rtok) /\ lastid.realmlen = Len(lastid.realm)

====
