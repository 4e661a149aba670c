--------------------------- MODULE MCSipParsing ---------------------------
EXTENDS SipParsing

\* Usernames and realms as osip returns them: plain, and quoted.
MCTokens == {<<"a">>, <<Q, "a", Q>>}

\* The same, with the empty quoted string username="".
MCTokensEmpty == {<<"a">>, <<Q, "a", Q>>, <<Q, Q>>}

\* A host name or IPv4 address (one character stands for it).
MCHosts == {<<"h">>}

\* The same, with a bracketed IPv6 address ([h:h]).
MCHostsV6 == {<<"h">>, <<"[", "h", ":", "h", "]">>}
====
