---------------------------- MODULE ConfigParser ----------------------------
(***************************************************************************)
(* The YAML configuration loaders of configparser.c.  yaml_parser opens    *)
(* and loads the file, then walks the root mapping and hands every (key,   *)
(* value) pair to a parse_mapping callback, stopping at the first callback *)
(* that returns -1.  global_parser fills the collector's                   *)
(* collector_global_t and parse_global_config then checks the mandatory    *)
(* IDs; provisioning_parser and ipintercept_parser fill the provisioner's  *)
(* intercept and agency lists.  One action is one callback call, with the  *)
(* loops over the items of a sequence value folded into it.                *)
(*                                                                         *)
(* Data is abstracted: a YAML scalar is the record of its strlen and of    *)
(* what strtoul makes of it, a key is its text, a sequence item is the     *)
(* list of (key, value) pairs of its mapping.                              *)
(***************************************************************************)
EXTENDS Integers, Sequences, SequencesExt

CONSTANTS
    Docs,       \* the configuration files the loader may be given
    NULL        \* an unset char * field, or a NULL collector_global_t *

VARIABLES
    entry,      \* the caller: "global", "provisioning" or "ipintercept"
    doc,        \* the file: how loading it ends ("ok" or a failure), root pairs
    pc,         \* "load", "pairs", "check", "done" or "crashed"
    i,          \* the next root pair yaml_parser hands to the callback
    ret,        \* yaml_parser's ret
    glob,       \* the collector_global_t being filled
    prov,       \* the provisioner's intercept list, agency list, addresses
    result      \* what the entry point returned: "glob" or NULL, or an int

vars == <<entry, doc, pc, i, ret, glob, prov, result>>

\* fopen fails, yaml_parser_load fails, no root node, root not a mapping.
LoadFailures == {"unopenable", "malformed", "empty", "notmap"}

Scalar(len, num) == [type |-> "scalar", len |-> len, num |-> num]
Sequence(items) == [type |-> "sequence", items |-> items]
IsScalar(v) == v.type = "scalar"

-----------------------------------------------------------------------------
(* The collector's global configuration.                                   *)

IdKeys == {"operatorid", "networkelementid", "interceptpointid"}
GlobalKeys == IdKeys \cup {"provisionerport", "provisionerip"}
IdLimit == [k \in IdKeys |-> IF k = "interceptpointid" THEN 8 ELSE 16]
InputChunk == 10    \* parse_input_config grows glob->inputs by 10 entries

InitGlob ==
    [ids |-> [k \in GlobalKeys |-> NULL], inputs |-> <<>>, inputalloced |-> 0,
     totalthreads |-> 0, queuealloced |-> 0, cleared |-> FALSE]

ClearGlobalConfig(g) == [g EXCEPT !.cleared = TRUE]

\* One pair of an input's mapping: the first "uri" wins, the last "threads".
InputField(inp, p) ==
    [uri |-> IF p[1] = "uri" /\ IsScalar(p[2]) /\ inp.uri = NULL
             THEN p[2] ELSE inp.uri,
     threadcount |-> IF p[1] = "threads" /\ IsScalar(p[2])
                     THEN p[2].num ELSE inp.threadcount]

\* Mutant: the array is allocated once and never realloc'd.
GrowInputsOnce(g) ==
    IF g.inputalloced = 0 THEN InputChunk ELSE g.inputalloced

GrowInputs(g) ==
    IF Len(g.inputs) = g.inputalloced THEN g.inputalloced + InputChunk
    ELSE g.inputalloced

\* One item of the "inputs" sequence.
AddInput(g, item) ==
    LET inp == FoldLeft(InputField, [uri |-> NULL, threadcount |-> 1], item)
    IN  [g EXCEPT !.inputalloced = GrowInputs(g),
                  !.inputs = Append(@, inp),
                  !.totalthreads = @ + inp.threadcount]

\* The sync queue arrays are sized to the threads of every input so far.
ParseInputConfig(g, items) ==
    LET g2 == FoldLeft(AddInput, g, items)
    IN  [g2 EXCEPT !.queuealloced = g2.totalthreads]

\* Mutant: the glob is freed but the callback does not return -1.
StoreIdNoReturn(g, k, v) ==
    LET g2 == [g EXCEPT !.ids[k] = v]
    IN  IF v.len > IdLimit[k] THEN <<ClearGlobalConfig(g2), 0>> ELSE <<g2, 0>>

\* An ID is stored, then rejected (and the glob freed) when too long.
StoreId(g, k, v) ==
    LET g2 == [g EXCEPT !.ids[k] = v]
    IN  IF v.len > IdLimit[k] THEN <<ClearGlobalConfig(g2), -1>> ELSE <<g2, 0>>

\* Mutant: the scalar test is dropped for the provisioner address keys.
GlobalParserAnyValue(g, k, v) ==
    CASE k = "inputs" /\ v.type = "sequence" -> <<ParseInputConfig(g, v.items), 0>>
      [] k \in IdKeys /\ IsScalar(v)         -> StoreId(g, k, v)
      [] k \in GlobalKeys                    -> <<[g EXCEPT !.ids[k] = v], 0>>
      [] OTHER                               -> <<g, 0>>

\* The new glob and the callback's return value.
GlobalParser(g, k, v) ==
    CASE k = "inputs" /\ v.type = "sequence" -> <<ParseInputConfig(g, v.items), 0>>
      [] k \in IdKeys /\ IsScalar(v)         -> StoreId(g, k, v)
      [] k \in GlobalKeys /\ IsScalar(v)     -> <<[g EXCEPT !.ids[k] = v], 0>>
      [] OTHER                               -> <<g, 0>>

-----------------------------------------------------------------------------
(* The provisioner's configuration.                                        *)

ProvKeys == {"clientport", "clientaddr", "updateport", "updateaddr",
             "mediationport", "mediationaddr"}
\* YAML key -> field of ipintercept_t, and of liagency_t.
CeptField == ("liid" :> "liid") @@ ("authcountrycode" :> "authcc")
             @@ ("deliverycountrycode" :> "delivcc") @@ ("user" :> "username")
             @@ ("mediator" :> "destid") @@ ("agencyid" :> "targetagency")
AgencyField == ("address" :> "ipstr") @@ ("port" :> "portstr")
               @@ ("agencyid" :> "agencyid")

InitProv == [addr |-> [k \in ProvKeys |-> NULL], ipintercepts |-> <<>>, leas |-> <<>>]

Unset(f) == IF f = "destid" THEN 0 ELSE NULL
FieldValue(f, v) == IF f = "destid" THEN v.num ELSE v

\* Mutant: the "field == NULL" test is dropped, the last pair wins.
FirstWinsDropped(table, e, p) ==
    IF p[1] \in DOMAIN table /\ IsScalar(p[2])
    THEN [e EXCEPT ![table[p[1]]] = FieldValue(table[p[1]], p[2])]
    ELSE e

\* One pair of an entry's mapping: a field not yet set takes the value.
FirstWins(table, e, p) ==
    IF /\ p[1] \in DOMAIN table
       /\ IsScalar(p[2])
       /\ e[table[p[1]]] = Unset(table[p[1]])
    THEN [e EXCEPT ![table[p[1]]] = FieldValue(table[p[1]], p[2])]
    ELSE e

Complete(e) == \A f \in DOMAIN e \ {"internalid"} : e[f] # Unset(f)

NewEntry(table, item) ==
    FoldLeft(LAMBDA e, p : FirstWins(table, e, p),
             [f \in Range(table) |-> Unset(f)], item)

\* nextid restarts at 0 for every list; complete intercepts are pushed to
\* the front, incomplete ones skipped.
ParseIpInterceptList(list, items) ==
    FoldLeftDomain(LAMBDA l, n :
                     LET c == ("internalid" :> n - 1) @@ NewEntry(CeptField, items[n])
                     IN  IF Complete(c) THEN <<c>> \o l ELSE l,
                   list, items)

ParseAgencyList(list, items) ==
    FoldLeft(LAMBDA l, item :
               LET a == NewEntry(AgencyField, item)
               IN  IF Complete(a) THEN <<a>> \o l ELSE l,
             list, items)

IpInterceptParser(p, k, v) ==
    IF k = "ipintercepts" /\ v.type = "sequence"
    THEN [p EXCEPT !.ipintercepts = ParseIpInterceptList(@, v.items)]
    ELSE p

ProvisioningParser(p, k, v) ==
    CASE k = "ipintercepts" /\ v.type = "sequence" -> IpInterceptParser(p, k, v)
      [] k = "agencies" /\ v.type = "sequence" ->
             [p EXCEPT !.leas = ParseAgencyList(@, v.items)]
      [] k \in ProvKeys /\ IsScalar(v) -> [p EXCEPT !.addr[k] = v]
      [] OTHER -> p

-----------------------------------------------------------------------------
(* yaml_parser and its callers.                                            *)

\* What the caller does with yaml_parser's return value.
Return(r) ==
    IF entry = "global"
    THEN IF r = -1 THEN pc' = "done" /\ result' = NULL
         ELSE pc' = "check" /\ result' = result
    ELSE pc' = "done" /\ result' = r

Init ==
    /\ entry \in {"global", "provisioning", "ipintercept"}
    /\ doc \in Docs
    /\ pc = "load"
    /\ i = 0
    /\ ret = -1
    /\ glob = InitGlob
    /\ prov = InitProv
    /\ result = NULL

LoadFails ==
    /\ pc = "load"
    /\ doc.load \in LoadFailures
    /\ Return(-1)
    /\ UNCHANGED <<entry, doc, i, ret, glob, prov>>

LoadRoot ==
    /\ pc = "load"
    /\ doc.load = "ok"
    /\ pc' = "pairs"
    /\ i' = 1
    /\ UNCHANGED <<entry, doc, ret, glob, prov, result>>

GlobalPair ==
    /\ pc = "pairs" /\ entry = "global" /\ i <= Len(doc.pairs)
    /\ LET out == GlobalParser(glob, doc.pairs[i][1], doc.pairs[i][2])
       IN  /\ glob' = out[1]
           /\ \/ out[2] = -1 /\ ret' = -1 /\ Return(-1) /\ UNCHANGED i
              \/ out[2] = 0 /\ ret' = 0 /\ i' = i + 1 /\ UNCHANGED <<pc, result>>
    /\ UNCHANGED <<entry, doc, prov>>

ProvisioningPair ==
    /\ pc = "pairs" /\ entry # "global" /\ i <= Len(doc.pairs)
    /\ prov' = IF entry = "provisioning"
               THEN ProvisioningParser(prov, doc.pairs[i][1], doc.pairs[i][2])
               ELSE IpInterceptParser(prov, doc.pairs[i][1], doc.pairs[i][2])
    /\ ret' = 0
    /\ i' = i + 1
    /\ UNCHANGED <<entry, doc, pc, glob, result>>

EndPairs ==
    /\ pc = "pairs" /\ i > Len(doc.pairs)
    /\ Return(ret)
    /\ UNCHANGED <<entry, doc, i, ret, glob, prov>>

\* After a missing network element ID the glob is freed and set to NULL,
\* and the operator ID test then reads glob->operatorid.
CheckIds ==
    /\ pc = "check"
    /\ \/ /\ glob.ids["networkelementid"] = NULL
          /\ glob' = ClearGlobalConfig(glob)
          /\ pc' = "crashed"
          /\ UNCHANGED result
       \/ /\ glob.ids["networkelementid"] # NULL
          /\ glob.ids["operatorid"] = NULL
          /\ glob' = ClearGlobalConfig(glob)
          /\ pc' = "done"
          /\ result' = NULL
       \/ /\ glob.ids["networkelementid"] # NULL
          /\ glob.ids["operatorid"] # NULL
          /\ pc' = "done"
          /\ result' = "glob"
          /\ UNCHANGED glob
    /\ UNCHANGED <<entry, doc, i, ret, prov>>

Next ==
    \/ LoadFails \/ LoadRoot \/ GlobalPair \/ ProvisioningPair
    \/ EndPairs \/ CheckIds

Spec == Init /\ [][Next]_vars

-----------------------------------------------------------------------------
(* Properties.                                                             *)

IsValue(v) == IsScalar(v) /\ v.len \in Nat /\ v.num \in Nat

TypeOK ==
    /\ entry \in {"global", "provisioning", "ipintercept"}
    /\ pc \in {"load", "pairs", "check", "done", "crashed"}
    /\ i \in Nat /\ ret \in {-1, 0}
    /\ \A k \in GlobalKeys : glob.ids[k] = NULL \/ IsValue(glob.ids[k])
    /\ glob.cleared \in BOOLEAN
    /\ \A k \in ProvKeys : prov.addr[k] = NULL \/ IsValue(prov.addr[k])
    /\ IF entry = "global" THEN result \in {NULL, "glob"} ELSE result \in {NULL, -1, 0}

\* The total of the thread counts of a list of inputs.
Threads(inputs) == FoldLeft(LAMBDA t, inp : t + inp.threadcount, 0, inputs)

\* parse_input_config writes glob->inputs[inputcount] after growing the array
\* in steps of 10, and sizes syncsendqs and syncepollevs to totalthreads:
\* while the glob is live, every input lies inside the allocated array and
\* the sync queue arrays have one slot per thread of every input parsed so
\* far, across several "inputs" keys.
InputArraysSized ==
    ~glob.cleared =>
        /\ Len(glob.inputs) <= glob.inputalloced
        /\ glob.queuealloced = Threads(glob.inputs)

\* A collector_global_t that parse_global_config returns has not been freed
\* by clear_global_config on an earlier error, carries an operator ID and a
\* network element ID, and holds no ID longer than global_parser allows.
ReturnedGlobValid ==
    entry = "global" /\ result = "glob" =>
        /\ ~glob.cleared
        /\ glob.ids["operatorid"] # NULL
        /\ glob.ids["networkelementid"] # NULL
        /\ \A k \in IdKeys : glob.ids[k] # NULL => glob.ids[k].len <= IdLimit[k]

\* What a provisioner configuration means, written without the parser's
\* loops: an entry takes, for each key, the value of the first pair with
\* that key (the first nonzero one for "mediator"); entries missing a field
\* are skipped; the intercepts of a list are numbered from 0 by position;
\* the lists end up in reverse document order.
FirstValue(item, k) ==
    LET n == SelectInSeq(item, LAMBDA p : p[1] = k /\ IsScalar(p[2])
                                           /\ (k = "mediator" => p[2].num # 0))
    IN  IF n = 0 THEN NULL ELSE item[n][2]

RefCept(item, id) ==
    [internalid |-> id, liid |-> FirstValue(item, "liid"),
     authcc |-> FirstValue(item, "authcountrycode"),
     delivcc |-> FirstValue(item, "deliverycountrycode"),
     username |-> FirstValue(item, "user"),
     targetagency |-> FirstValue(item, "agencyid"),
     destid |-> IF FirstValue(item, "mediator") = NULL THEN 0
                ELSE FirstValue(item, "mediator").num]

RefAgency(item, id) ==
    [ipstr |-> FirstValue(item, "address"), portstr |-> FirstValue(item, "port"),
     agencyid |-> FirstValue(item, "agencyid")]

RefList(pairs, key, Ref(_, _)) ==
    LET lists == [j \in 1..Len(pairs) |->
                    IF pairs[j][1] = key /\ pairs[j][2].type = "sequence"
                    THEN LET items == pairs[j][2].items
                         IN  SelectSeq([n \in 1..Len(items) |-> Ref(items[n], n - 1)],
                                       Complete)
                    ELSE <<>>]
    IN  Reverse(FlattenSeq(lists))

\* After every root pair it has handled, the provisioner's intercept and
\* agency lists are exactly what the pairs handled so far say: no complete
\* entry is lost, no incomplete one kept, no duplicated key overrides the
\* first, the order and the numbering are those of the document.
ListsMatchDocument ==
    (entry # "global" /\ pc \in {"pairs", "done"} /\ doc.load = "ok") =>
        LET seen == SubSeq(doc.pairs, 1, i - 1)
        IN  /\ prov.ipintercepts = RefList(seen, "ipintercepts", RefCept)
            /\ prov.leas = IF entry = "provisioning"
                           THEN RefList(seen, "agencies", RefAgency) ELSE <<>>

\* parse_global_config never reads through the collector_global_t pointer
\* after it has freed the structure and set the pointer to NULL.
NoNullDereference == pc # "crashed"

=============================================================================
