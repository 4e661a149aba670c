--------------------------- MODULE MCConfigParser ---------------------------
(* Configuration files for ConfigParser: each exercises a branch of the    *)
(* loaders.  An ID scalar is only its length (16/17 and 8/9 sit on the     *)
(* limits of global_parser); a "threads" or "mediator" scalar is only its   *)
(* strtoul value.                                                           *)
EXTENDS ConfigParser

S(len) == Scalar(len, 0)
N(num) == Scalar(1, num)
File(pairs) == [load |-> "ok", pairs |-> pairs]
Failed(how) == [load |-> how, pairs |-> <<>>]

Input == << <<"uri", S(4)>>, <<"threads", N(2)>> >>
\* A second "uri" is ignored, a second "threads" replaces the first.
InputDup == << <<"uri", S(4)>>, <<"uri", S(5)>>, <<"threads", N(3)>>,
               <<"threads", N(0)>> >>
Ids == << <<"operatorid", S(16)>>, <<"networkelementid", S(16)>>,
          <<"interceptpointid", S(8)>> >>

GlobalFiles == {
    \* a complete configuration with two inputs
    File(Ids \o << <<"provisionerip", S(9)>>, <<"provisionerport", S(4)>>,
                   <<"inputs", Sequence(<<Input, InputDup>>)>> >>),
    \* eleven inputs outgrow the first allocation; a second "inputs" key
    File(<< <<"inputs", Sequence([n \in 1..11 |-> Input])>>,
            <<"operatorid", S(3)>>, <<"networkelementid", S(3)>>,
            <<"inputs", Sequence(<<InputDup>>)>> >>),
    \* an operator ID one past its limit, and one replaced by such an ID
    File(<< <<"operatorid", S(17)>>, <<"networkelementid", S(16)>> >>),
    File(<< <<"operatorid", S(3)>>, <<"networkelementid", S(3)>>,
            <<"operatorid", S(17)>> >>),
    \* an intercept point ID one past its limit
    File(<< <<"networkelementid", S(16)>>, <<"operatorid", S(16)>>,
            <<"interceptpointid", S(9)>> >>),
    \* no operator ID, values of the wrong node type; an empty root mapping
    File(<< <<"networkelementid", S(3)>>, <<"inputs", S(3)>>,
            <<"provisionerip", Sequence(<<>>)>> >>),
    File(<< >>) }

Cept == << <<"liid", S(2)>>, <<"authcountrycode", S(2)>>,
           <<"deliverycountrycode", S(2)>>, <<"user", S(1)>>,
           <<"mediator", N(1)>>, <<"agencyid", S(1)>> >>
\* A repeated "liid" and a zero "mediator" followed by a valid one.
CeptDup == << <<"liid", S(3)>>, <<"mediator", N(0)>> >> \o Cept
CeptNoUser == SelectSeq(Cept, LAMBDA p : p[1] # "user")
Agency == << <<"address", S(9)>>, <<"port", S(4)>>, <<"agencyid", S(1)>> >>
AgencyDup == << <<"agencyid", S(2)>> >> \o Agency

ProvisioningFiles == {
    File(<< <<"ipintercepts", Sequence(<<Cept, CeptDup, CeptNoUser>>)>>,
            <<"agencies", Sequence(<<AgencyDup, <<>>, Agency>>)>>,
            <<"clientport", S(4)>>, <<"clientport", S(5)>>,
            <<"mediationaddr", Sequence(<<>>)>>,
            <<"ipintercepts", Sequence(<<CeptNoUser, Cept>>)>> >>) }

MCDocs == GlobalFiles \cup ProvisioningFiles \cup
          {Failed(how) : how \in LoadFailures}
=============================================================================
