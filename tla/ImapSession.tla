---------------------------- MODULE ImapSession ----------------------------
(***************************************************************************)
(* One IMAP session of the collector's IMAP tracker                         *)
(* (src/src/collector/emailprotocols/imap.c).  The capture side feeds the  *)
(* session's bytes, both directions interleaved, in arbitrary chunks       *)
(* (update_imap_session_by_ingestion); each call appends the chunk to the  *)
(* content buffer and calls process_next_imap_state until it returns <= 0. *)
(*                                                                         *)
(* Bytes are abstracted to lines: the session transcript `script` is a     *)
(* sequence of lines [dir, tag, word, more, mech, tok] (tag NoSpace for a  *)
(* line without a space; more: a second space follows the word; mech and   *)
(* tok: the SASL mechanism and token an AUTHENTICATE or token line         *)
(* carries).  The buffer holds the first `avail` lines and, if `half`, the *)
(* next line without its CRLF.  Cursors are 0-based line offsets, as the   *)
(* code's byte offsets: 0 is both "unset" and the first line.  A saved     *)
(* command's buffer is a sequence of pieces (a line, a line cut before its *)
(* token, or a re-encoded masked token) and its CCs are piece ranges.      *)
(***************************************************************************)
EXTENDS Integers, Sequences, SequencesExt, FiniteSets

CONSTANTS
  Scripts,    \* the session transcripts the capture may carry
  NoSpace,    \* tag of a line that holds no space (a SASL token, DONE)
  Merged,     \* tag strchr yields when the first space is on a later line
  NoMech,     \* AUTHENTICATE line without a mechanism
  NoTok,      \* line without a SASL token
  Null,       \* NULL char * / -1 index
  StubResults \* what the uninitialised return of read_imap_while_auth_state may be

VARIABLES
  script,     \* the transcript of this session
  avail,      \* complete lines in contbuffer
  half,       \* contbuffer also holds the next line without its CRLF
  busy,       \* inside update_imap_session_by_ingestion's while (1) loop
  crashed,    \* the worker died on a NULL dereference
  currstate,  \* sess->currstate
  im          \* the imap_session_t

vars == <<script, avail, half, busy, crashed, currstate, im>>

Line(k) == script[k + 1]
Visible(k) == k < avail \/ (k = avail /\ half)
Crlf(k) == k < avail

\* strcasecmp: the transcripts differ in case only in "authenticate".
Fold(w) == IF w = "authenticate" THEN "AUTHENTICATE" ELSE w

FirstOf(S) == CHOOSE k \in S : \A j \in S : k <= j

\* Authzid, the first NUL-separated field of a decoded PLAIN token.
Authzid(tok) == IF tok = NoTok THEN "" ELSE tok.authzid

Piece(k) == [line |-> k, cut |-> FALSE, masked |-> Null]
EmptySlot == [tag |-> Null, name |-> Null, body |-> <<>>, ccs |-> <<>>]

-----------------------------------------------------------------------------
(* Buffer scanning.                                                        *)

\* find_server_ready: strcasestr "* OK " from contbufread (fewer than five
\* bytes there: nothing found).
FindServerReady(i) ==
  LET S == {k \in i.rd .. avail : Visible(k) /\ Line(k).tag = "*" /\
                                   Line(k).word = "OK" /\ Line(k).more}
  IN  IF ~Visible(i.rd) \/ S = {} THEN [found |-> FALSE, i |-> i]
      ELSE [found |-> TRUE, i |-> [i EXCEPT !.ncs = FirstOf(S), !.ntype = "SERVREADY"]]

\* find_server_ready_end: the banner line's CRLF.
FindServerReadyEnd(cs, i) ==
  IF ~Crlf(i.ncs) THEN [cs |-> cs, i |-> i, r |-> 0, crash |-> FALSE]
  ELSE [cs |-> "PRE_AUTH",
        i |-> [i EXCEPT !.rd = i.ncs + 1, !.ncs = 0, !.ntype = "NONE"],
        r |-> 1, crash |-> FALSE]

\* save_imap_command: copy the line at next_comm_start into the first slot
\* whose imap_command is NULL (new slots are appended), with a client CC,
\* and hand the tag and name over to the slot.
SaveImapCommand(i) ==
  LET free == {x \in 1 .. Len(i.cmds) : i.cmds[x].name = Null}
      idx  == IF free # {} THEN FirstOf(free) ELSE Len(i.cmds) + 1
      slot == IF idx <= Len(i.cmds) THEN i.cmds[idx] ELSE EmptySlot
      new  == [slot EXCEPT !.body = Append(@, Piece(i.ncs)),
                           !.ccs = Append(@, [lo |-> Len(slot.body),
                                              hi |-> Len(slot.body) + 1, dir |-> "C"]),
                           !.name = i.nname, !.tag = i.ntag]
  IN  [idx |-> idx,
       i |-> [i EXCEPT !.cmds = IF idx <= Len(@) THEN [@ EXCEPT ![idx] = new]
                                ELSE Append(@, new),
                       !.ntag = Null, !.nname = Null]]

\* save_imap_reply: the first slot carrying the reply's tag, scanning no
\* further than the first slot with a NULL tag; the reply lines from
\* reply_start are appended to it with a server CC.
SaveImapReply(i) ==
  LET M == {x \in 1 .. Len(i.cmds) :
              /\ i.cmds[x].tag = i.ntag
              /\ \A y \in 1 .. x - 1 : i.cmds[y].tag \notin {Null, i.ntag}}
      x == FirstOf(M)
      c == i.cmds[x]
      reply == [k \in 1 .. i.rd - i.rs |-> Piece(i.rs + k - 1)]
  IN  IF M = {} THEN [r |-> 0, orig |-> Null, i |-> [i EXCEPT !.ntag = Null, !.nname = Null]]
      ELSE [r |-> 1, orig |-> c.name,
            i |-> [i EXCEPT !.cmds[x] = [c EXCEPT !.body = @ \o reply,
                                          !.ccs = Append(@, [lo |-> Len(c.body),
                                                   hi |-> Len(c.body) + Len(reply),
                                                   dir |-> "S"])],
                            !.ntag = Null, !.nname = Null]]

\* find_reply_end: a tagged OK/NO/BAD line completes the reply.
FindReplyEnd(cs, i) ==
  IF ~Crlf(i.ncs) THEN [cs |-> cs, i |-> i, r |-> 0, crash |-> FALSE]
  ELSE LET sv == SaveImapReply([i EXCEPT !.rd = i.ncs + 1])
           i2 == [sv.i EXCEPT !.ntype = "NONE", !.ncs = 0, !.rs = 0]
       IN  IF sv.orig # Null /\ Fold(sv.orig) = "LOGOUT"
           THEN [cs |-> "SESSION_OVER", i |-> i2, r |-> 0, crash |-> FALSE]
           ELSE [cs |-> IF sv.orig # Null /\ Fold(sv.orig) = "AUTHENTICATE"
                        THEN "AUTHENTICATED" ELSE cs,
                 i |-> i2, r |-> sv.r, crash |-> FALSE]

\* Mutant: the CRLF is found but contbufread is not moved past it.
FindPartialReplyEndStuck(cs, i) ==
  IF ~Crlf(i.ncs) THEN [cs |-> cs, i |-> i, r |-> 0, crash |-> FALSE]
  ELSE [cs |-> cs, i |-> [i EXCEPT !.ntype = "NONE", !.ncs = 0], r |-> 1, crash |-> FALSE]

\* Mutant: reply_start is cleared after every untagged line.
FindPartialReplyEndReset(cs, i) ==
  IF ~Crlf(i.ncs) THEN [cs |-> cs, i |-> i, r |-> 0, crash |-> FALSE]
  ELSE [cs |-> cs, i |-> [i EXCEPT !.rd = i.ncs + 1, !.ntype = "NONE", !.ncs = 0, !.rs = 0],
        r |-> 1, crash |-> FALSE]

\* find_partial_reply_end: an untagged line joins the pending reply.
FindPartialReplyEnd(cs, i) ==
  IF ~Crlf(i.ncs) THEN [cs |-> cs, i |-> i, r |-> 0, crash |-> FALSE]
  ELSE [cs |-> cs, i |-> [i EXCEPT !.rd = i.ncs + 1, !.ntype = "NONE", !.ncs = 0],
        r |-> 1, crash |-> FALSE]

-----------------------------------------------------------------------------
(* SASL.                                                                   *)

\* The bytes from auth_read_from to contbufread: nothing, the inline token
\* of a line, or whole lines from a line start.
AuthMsg(i) ==
  IF i.authfrom.at >= i.rd THEN [kind |-> "empty", at |-> i.authfrom.at]
  ELSE [kind |-> IF i.authfrom.tok THEN "inline" ELSE "lines", at |-> i.authfrom.at]

\* get_auth_type: tag, command and mechanism tokens of the AUTHENTICATE
\* line; PLAIN moves auth_read_from to the inline token or past the CRLF.
GetAuthType(i) ==
  LET m == AuthMsg(i)
      L == Line(m.at)
  IN  IF m.kind = "empty" THEN [r |-> 0, i |-> i]
      ELSE IF m.kind = "inline" \/ L.tag = NoSpace \/ L.mech # "PLAIN" THEN [r |-> -1, i |-> i]
      ELSE [r |-> 1,
            i |-> [i EXCEPT !.authtype = "PLAIN",
                            !.authfrom = IF L.tok # NoTok THEN [at |-> m.at, tok |-> TRUE]
                                         ELSE [at |-> m.at + 1, tok |-> FALSE]]]

\* Mutant: the re-encoded token is written after the original one.
UpdateSavedAuthCommandAfterToken(i, masked, m) ==
  LET c == i.cmds[i.authidx]
  IN  [r |-> 1, crash |-> FALSE,
       i |-> [i EXCEPT !.cmds[i.authidx] =
                [c EXCEPT !.body = Append(@, [line |-> -1, cut |-> FALSE, masked |-> masked]),
                          !.ccs[Len(c.ccs)] = [@ EXCEPT !.hi = Len(c.body) + 1]]]]

\* update_saved_auth_command: strstr the original token in the saved auth
\* command and overwrite from there with the re-encoded token.
UpdateSavedAuthCommand(i, masked, m) ==
  LET c   == i.cmds[i.authidx]
      at  == {p \in 1 .. Len(c.body) : c.body[p].line = m.at /\ ~c.body[p].cut}
      pos == IF m.kind = "empty" THEN 0 ELSE FirstOf(at) - 1
      cut == IF m.kind = "empty" THEN <<>>
             ELSE <<[line |-> m.at, cut |-> TRUE, masked |-> Null]>>
      body == SubSeq(c.body, 1, pos) \o cut \o <<[line |-> -1, cut |-> FALSE, masked |-> masked]>>
  IN  IF c.tag = Null THEN [r |-> -1, crash |-> TRUE, i |-> i]
      ELSE IF c.tag # i.authtag \/ c.name # "AUTHENTICATE" THEN [r |-> -1, crash |-> FALSE, i |-> i]
      ELSE IF m.kind # "empty" /\ at = {} THEN [r |-> -1, crash |-> FALSE, i |-> i]
      ELSE [r |-> 1, crash |-> FALSE,
            i |-> [i EXCEPT !.cmds[i.authidx] =
                     [c EXCEPT !.body = body,
                               !.ccs[Len(c.ccs)] = [@ EXCEPT !.hi = Len(body)]]]]

\* decode_plain_auth_content: the mailbox is the first field of the decoded
\* token; the saved command is rewritten; on success the session is
\* AUTHENTICATED.
DecodePlainAuthContent(cs, i) ==
  LET m   == AuthMsg(i)
      tok == IF m.kind = "empty" THEN NoTok ELSE Line(m.at).tok
      mb  == Authzid(tok)
      up  == UpdateSavedAuthCommand([i EXCEPT !.mailbox = mb], mb, m)
  IN  IF m.kind = "lines" /\ Line(m.at).tag = "+"
      THEN [cs |-> cs, i |-> [i EXCEPT !.authfrom = [at |-> i.rd, tok |-> FALSE]],
            r |-> 0, crash |-> FALSE]
      ELSE IF up.r < 0 THEN [cs |-> cs, i |-> up.i, r |-> up.r, crash |-> up.crash]
      ELSE [cs |-> "AUTHENTICATED",
            i |-> [up.i EXCEPT !.ntype = "NONE", !.ncs = 0, !.rs = 0],
            r |-> 1, crash |-> FALSE]

\* Mutant: a failed get_auth_type also clears next_command_type.
DecodeAuthenticationCommandResetType(cs, i) ==
  LET g == GetAuthType(i)
  IN  IF i.authtype = "PLAIN" THEN DecodePlainAuthContent(cs, i)
      ELSE IF g.r <= 0 THEN [cs |-> cs, i |-> [g.i EXCEPT !.ntype = "NONE"], r |-> 0, crash |-> FALSE]
      ELSE DecodePlainAuthContent(cs, g.i)

\* decode_authentication_command: learn the mechanism, then decode PLAIN;
\* a mechanism other than PLAIN ends the call with 0.
DecodeAuthenticationCommand(cs, i) ==
  LET g == GetAuthType(i)
  IN  IF i.authtype = "PLAIN" THEN DecodePlainAuthContent(cs, i)
      ELSE IF g.r <= 0 THEN [cs |-> cs, i |-> g.i, r |-> 0, crash |-> FALSE]
      ELSE DecodePlainAuthContent(cs, g.i)

-----------------------------------------------------------------------------
(* Commands and message framing.                                           *)

\* find_command_end after the CRLF of the command line: save the command;
\* an AUTHENTICATE goes on to decode_authentication_command, LOGOUT and
\* IDLE change state.
CommandComplete(cs, i) ==
  LET sv == SaveImapCommand([i EXCEPT !.rd = i.ncs + 1])
      i2 == [sv.i EXCEPT !.ntype = "NONE", !.ncs = 0, !.rs = 0,
                         !.idleidx = IF i.ntype = "IDLE" THEN sv.idx ELSE @]
  IN  IF i.ntype = "AUTH"
      THEN DecodeAuthenticationCommand("AUTHENTICATING", [sv.i EXCEPT !.authidx = sv.idx])
      ELSE [cs |-> CASE i.ntype = "LOGOUT" -> "LOGOUT"
                     [] i.ntype = "IDLE"   -> "IDLING"
                     [] OTHER              -> cs,
            i |-> i2, r |-> 1, crash |-> FALSE]

\* Mutant: the command is taken before its CRLF has arrived.
FindCommandEndNoCrlf(cs, i) == CommandComplete(cs, i)

\* find_command_end: nothing until the command line's CRLF is in the buffer.
FindCommandEnd(cs, i) ==
  IF ~Crlf(i.ncs) THEN [cs |-> cs, i |-> i, r |-> 0, crash |-> FALSE]
  ELSE CommandComplete(cs, i)

IsDone(k) == Line(k).tag = NoSpace /\ Line(k).word = "DONE"

\* Mutant: the server CC of an IDLE runs to the end of DONE.
IdleCcsDoneInServer(c, n) ==
  <<[lo |-> Len(c.body), hi |-> Len(c.body) + n + 1, dir |-> "S"],
    [lo |-> Len(c.body) + n, hi |-> Len(c.body) + n + 1, dir |-> "C"]>>

\* The two CCs added to the IDLE command: n server pieces, then DONE.
IdleCcs(c, n) ==
  <<[lo |-> Len(c.body), hi |-> Len(c.body) + n, dir |-> "S"],
    [lo |-> Len(c.body) + n, hi |-> Len(c.body) + n + 1, dir |-> "C"]>>

\* read_imap_while_idle_state: from the server's "+ " line to the client's
\* "\r\nDONE\r\n" everything is the IDLE command's: one server CC up to
\* DONE, one client CC for DONE.
ReadImapWhileIdleState(cs, i) ==
  LET P  == {k \in i.rd .. avail : Visible(k) /\ Line(k).tag = "+"}
      rs == IF i.rs # 0 THEN i.rs ELSE IF P = {} THEN 0 ELSE FirstOf(P)
      D  == {k \in i.rd + 1 .. avail : Crlf(k) /\ IsDone(k)}
      d  == FirstOf(D)
      c  == i.cmds[i.idleidx]
      srv == [n \in 1 .. d - rs |-> Piece(rs + n - 1)]
      body == c.body \o srv \o <<Piece(d)>>
      ccs == c.ccs \o IdleCcs(c, Len(srv))
  IN  IF i.rs = 0 /\ P = {} THEN [cs |-> cs, i |-> i, r |-> 0, crash |-> FALSE]
      ELSE IF D = {} THEN [cs |-> cs, i |-> [i EXCEPT !.rs = rs], r |-> 0, crash |-> FALSE]
      ELSE [cs |-> "AUTHENTICATED",
            i |-> [i EXCEPT !.rd = d + 1, !.rs = 0,
                            !.cmds[i.idleidx] = [c EXCEPT !.body = body, !.ccs = ccs]],
            r |-> 1, crash |-> FALSE]

\* find_next_imap_message: tag up to the first space, command or response
\* word up to the next space or CRLF, and the kind of message it starts.
\* In AUTHENTICATING the stub read_imap_while_auth_state runs instead and
\* returns whatever `stub` is.
FindNextImapMessage(cs, i, stub) ==
  LET S   == {k \in i.rd .. avail : Visible(k) /\ Line(k).tag # NoSpace}
      k   == FirstOf(S)
      L   == Line(k)
      tag == IF k = i.rd THEN L.tag ELSE Merged
      w   == Fold(L.word)
      i1  == [i EXCEPT !.ntag = tag, !.nname = L.word, !.ncs = i.rd]
      rs  == IF i.rs = 0 THEN i.rd ELSE i.rs
      Ok(x) == [cs |-> cs, i |-> x, r |-> 1, crash |-> FALSE]
  IN  IF cs = "AUTHENTICATING" THEN [cs |-> cs, i |-> i, r |-> stub, crash |-> FALSE]
      ELSE IF cs = "IDLING" THEN ReadImapWhileIdleState(cs, i)
      ELSE IF ~Visible(i.rd) \/ S = {} \/ ~(L.more \/ Crlf(k))
      THEN [cs |-> cs, i |-> i, r |-> 0, crash |-> FALSE]
      ELSE IF tag = "*" /\ w = "BYE" /\ cs # "LOGOUT"
      THEN [cs |-> "SESSION_OVER", i |-> i, r |-> 0, crash |-> FALSE]
      ELSE IF tag = "*" /\ w = "PREAUTH" THEN Ok(i1)
      ELSE IF tag = "*"
      THEN Ok([i1 EXCEPT !.ntype = "REPLY_ONGOING", !.rs = rs, !.nname = Null])
      ELSE IF w \in {"OK", "NO", "BAD"} THEN Ok([i1 EXCEPT !.ntype = "REPLY", !.rs = rs])
      ELSE IF w = "AUTHENTICATE"
      THEN [cs |-> "AUTH_STARTED", r |-> 1, crash |-> FALSE,
            i |-> [i1 EXCEPT !.ntype = "AUTH", !.authtag = tag,
                             !.authfrom = [at |-> i.rd, tok |-> FALSE]]]
      ELSE Ok([i1 EXCEPT !.ntype = IF w \in {"ID", "IDLE", "LOGOUT"} THEN w ELSE "GENERIC"])

\* process_next_imap_state: the banner first, then by next_command_type.
ProcessNextImapState(cs, i, stub) ==
  LET sr == FindServerReady(i)
      cs1 == IF cs = "INIT" /\ sr.found THEN "SERVER_READY" ELSE cs
      i1  == IF cs = "INIT" /\ sr.found THEN sr.i ELSE i
  IN  IF cs1 = "SERVER_READY" THEN FindServerReadyEnd(cs1, i1)
      ELSE CASE i1.ntype = "NONE"          -> FindNextImapMessage(cs1, i1, stub)
             [] i1.ntype = "REPLY"         -> FindReplyEnd(cs1, i1)
             [] i1.ntype = "REPLY_ONGOING" -> FindPartialReplyEnd(cs1, i1)
             [] OTHER                      -> FindCommandEnd(cs1, i1)

-----------------------------------------------------------------------------
(* The session and the worker.                                             *)

\* The imap_session_t that update_imap_session_by_ingestion callocs on the
\* first packet of the flow (free command slots are not represented).
Init ==
  /\ script \in Scripts
  /\ avail = 0
  /\ half = FALSE
  /\ busy = FALSE
  /\ crashed = FALSE
  /\ currstate = "INIT"
  /\ im = [rd |-> 0, ncs |-> 0, rs |-> 0, ntype |-> "NONE", ntag |-> Null,
           nname |-> Null, cmds |-> <<>>, authtag |-> Null,
           authfrom |-> [at |-> 0, tok |-> FALSE], authtype |-> "NONE",
           mailbox |-> Null, authidx |-> Null, idleidx |-> Null]

\* append_content_to_imap_buffer: the next captured segment of the flow,
\* cut anywhere (here: at most two line ends on, possibly mid-line).  The
\* caller stops feeding a session once it has reported SESSION_OVER.
Ingest ==
  /\ ~busy /\ ~crashed /\ currstate # "SESSION_OVER"
  /\ \E n \in avail .. avail + 2, h \in BOOLEAN :
       /\ n > avail \/ (h /\ ~half)
       /\ n + (IF h THEN 1 ELSE 0) <= Len(script)
       /\ avail' = n
       /\ half' = h
  /\ busy' = TRUE
  /\ UNCHANGED <<script, crashed, currstate, im>>

\* One pass of update_imap_session_by_ingestion's while (1) loop: one call
\* of process_next_imap_state; the loop ends when it returns <= 0.
Process ==
  /\ busy
  /\ \E o \in {ProcessNextImapState(currstate, im, stub) : stub \in StubResults} :
       /\ currstate' = o.cs
       /\ im' = o.i
       /\ busy' = (o.r > 0 /\ ~o.crash)
       /\ crashed' = o.crash
  /\ UNCHANGED <<script, avail, half>>

Next == Ingest \/ Process

\* The flow's remaining bytes are captured and handed to the worker, and
\* the worker thread keeps running its loop.
Fairness == WF_vars(Ingest) /\ WF_vars(Process)

Spec == Init /\ [][Next]_vars /\ Fairness

-----------------------------------------------------------------------------
(* Properties.                                                             *)

States == {"INIT", "SERVER_READY", "PRE_AUTH", "AUTH_STARTED", "AUTHENTICATING",
           "AUTHENTICATED", "IDLING", "LOGOUT", "SESSION_OVER"}
CommandTypes == {"NONE", "SERVREADY", "REPLY", "REPLY_ONGOING", "GENERIC",
                 "AUTH", "LOGOUT", "IDLE", "ID"}
Pieces == [line : -1 .. Len(script) - 1, cut : BOOLEAN, masked : STRING \cup {Null}]
Ccs == [lo : Nat, hi : Nat, dir : {"C", "S"}]

\* Type invariant; the cursors contbufread, next_comm_start and reply_start
\* never point past the bytes appended to contbuffer.
TypeOK ==
  /\ avail \in 0 .. Len(script) /\ half \in BOOLEAN
  /\ busy \in BOOLEAN /\ crashed \in BOOLEAN
  /\ currstate \in States
  /\ {im.rd, im.ncs, im.rs} \subseteq 0 .. avail
  /\ im.ntype \in CommandTypes
  /\ \A x \in 1 .. Len(im.cmds) :
       /\ im.cmds[x].body \in Seq(Pieces)
       /\ im.cmds[x].ccs \in Seq(Ccs)
  /\ im.authidx \in Nat \cup {Null}
  /\ im.idleidx \in Nat \cup {Null}

\* Credential redaction (decode_plain_auth_content, update_saved_auth_command):
\* no saved command, whose bytes become CCs, holds a line carrying a live
\* PLAIN token, whatever the order the lines were captured and cut in.
NoLiveToken ==
  \A x \in 1 .. Len(im.cmds) : \A p \in 1 .. Len(im.cmds[x].body) :
    LET pc == im.cmds[x].body[p]
    IN  pc.line >= 0 /\ ~pc.cut => Line(pc.line).tok = NoTok

\* Every CC a saved command carries covers bytes of its own direction: client
\* CCs (save_imap_command, DONE) only client lines, server CCs
\* (save_imap_reply, the IDLE updates) only server lines.
CcDirectionsMatch ==
  \A x \in 1 .. Len(im.cmds) :
    LET c == im.cmds[x]
    IN  \A j \in 1 .. Len(c.ccs) : \A p \in c.ccs[j].lo + 1 .. c.ccs[j].hi :
          c.body[p].line >= 0 => Line(c.body[p].line).dir = c.ccs[j].dir

\* read_imap_while_auth_state returns an uninitialised value; it is only
\* called in AUTHENTICATING with no command pending, which never happens.
StubUnreachable == ~(currstate = "AUTHENTICATING" /\ im.ntype = "NONE")

\* Each call of update_imap_session_by_ingestion returns: the
\* process_next_imap_state loop does not spin on the same bytes.
IngestionReturns == busy ~> ~busy

\* The greeting find_server_ready consumes without making a CC of it.
Banner ==
  LET G == {k \in 0 .. Len(script) - 1 :
              Line(k).tag = "*" /\ Line(k).word = "OK" /\ Line(k).more}
  IN  IF G = {} THEN Len(script) ELSE FirstOf(G)

\* Server lines from reply_start on wait for their tagged completion.
PendingReply(k) == im.rs # 0 /\ im.rs <= k

\* Untagged lines accumulate into the pending reply of the awaited command
\* (spec 4.F): every server line but the greeting that contbufread has
\* moved past is in the buffer of a saved command, whose ranges become CCs,
\* or still waits, from reply_start, for its tagged OK/NO/BAD.  A client
\* command completing in between (find_command_end, which resets
\* reply_start) or save_imap_reply must not drop such a line.
ServerLinesIntercepted ==
  \A k \in 0 .. im.rd - 1 :
    (Line(k).dir = "S" /\ k # Banner /\ ~PendingReply(k)) =>
      \E x \in 1 .. Len(im.cmds) : \E p \in 1 .. Len(im.cmds[x].body) :
        im.cmds[x].body[p].line = k

\* decode_plain_auth_content: the mailbox learned is the token's authcid.
MailboxIsAuthcid ==
  im.mailbox # Null =>
    \E k \in 0 .. Len(script) - 1 : Line(k).tok # NoTok /\ im.mailbox = Line(k).tok.authcid

\* A session in AUTHENTICATING (find_command_end on AUTHENTICATE) leaves it,
\* authenticated or not, as the SASL exchange ends.
AuthEventuallyCompletes == currstate = "AUTHENTICATING" ~> currstate # "AUTHENTICATING"

\* No sequence of captured bytes makes the worker dereference NULL
\* (update_saved_auth_command's strcmp of the saved command's tag).
WorkerNeverCrashes == ~crashed

====
