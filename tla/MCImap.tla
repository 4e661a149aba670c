------------------------------- MODULE MCImap -------------------------------
(***************************************************************************)
(* Transcripts of IMAP sessions for checking ImapSession: a greeting, an   *)
(* AUTHENTICATE, a NOOP or an IDLE exchange, and a LOGOUT.  Each line is   *)
(* [dir, tag, word, more, mech, tok] as ImapSession describes.             *)
(***************************************************************************)
EXTENDS ImapSession

\* A line without SASL content.
Ln(d, t, w, m) == [dir |-> d, tag |-> t, word |-> w, more |-> m, mech |-> NoMech, tok |-> NoTok]

\* The PLAIN token "\0alice\0secret": empty authzid, authcid alice.
Tok == [authzid |-> "", authcid |-> "alice"]

Greet   == << Ln("S", "*", "OK", TRUE) >>
Preauth == << Ln("S", "*", "PREAUTH", TRUE) >>

\* a1 AUTHENTICATE PLAIN <token>, a1 OK
PlainInline(cmd) ==
  << [dir |-> "C", tag |-> "a1", word |-> cmd, more |-> TRUE, mech |-> "PLAIN", tok |-> Tok],
     Ln("S", "a1", "OK", TRUE) >>

\* a1 AUTHENTICATE <mech>, "+ ", <token>, a1 OK
Split(mech, tok) ==
  << [dir |-> "C", tag |-> "a1", word |-> "AUTHENTICATE", more |-> TRUE, mech |-> mech, tok |-> NoTok],
     Ln("S", "+", "", FALSE),
     [dir |-> "C", tag |-> NoSpace, word |-> "", more |-> FALSE, mech |-> NoMech, tok |-> tok],
     Ln("S", "a1", "OK", TRUE) >>

Noop == << Ln("C", "a2", "NOOP", FALSE), Ln("S", "a2", "OK", TRUE) >>

\* a2 IDLE, + idling, * 1 EXISTS, DONE, a2 OK
Idle ==
  << Ln("C", "a2", "IDLE", FALSE), Ln("S", "+", "idling", FALSE),
     Ln("S", "*", "1", TRUE), Ln("C", NoSpace, "DONE", FALSE), Ln("S", "a2", "OK", TRUE) >>

Logout ==
  << Ln("C", "a3", "LOGOUT", FALSE), Ln("S", "*", "BYE", TRUE), Ln("S", "a3", "OK", TRUE) >>

Session(greet, auth, middle) == greet \o auth \o middle \o Logout

ScriptsPass ==
  { Session(Greet, a, m) : a \in {PlainInline("AUTHENTICATE"), Split("GSSAPI", NoTok)},
                           m \in {Noop, Idle} }
ScriptsPreauth  == { Session(Preauth, PlainInline("AUTHENTICATE"), Noop) }
ScriptsMailbox  == { Session(Greet, PlainInline("AUTHENTICATE"), Noop) }
ScriptsGssapi   == { Session(Greet, Split("GSSAPI", NoTok), Noop) }
ScriptsLower    == { Session(Greet, PlainInline("authenticate"), Noop) }
ScriptsSplit    == { Session(Greet, Split("PLAIN", Tok), Noop) }

\* a2 NOOP, * 1 EXISTS, a3 NOOP sent before a2's reply, a2 OK, a3 OK
Pipelined ==
  << Ln("C", "a2", "NOOP", FALSE), Ln("S", "*", "1", TRUE), Ln("C", "a3", "NOOP", FALSE),
     Ln("S", "a2", "OK", TRUE), Ln("S", "a3", "OK", TRUE) >>
ScriptsPipelined == { Session(Greet, PlainInline("AUTHENTICATE"), Pipelined) }

MCStubResults == {-1, 0, 1}

====
