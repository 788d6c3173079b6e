--------------------------- MODULE MCPluginState ---------------------------
(***************************************************************************)
(* The plugins that keep state of their own, what they are told of a line, *)
(* and the configuration they ask.  None of them looks at the variables of *)
(* another, so each is explored by itself: "part" says which.  The others  *)
(* stay as they begin.                                                     *)
(***************************************************************************)
EXTENDS PluginState, TLC

CONSTANTS a, b, c, p, q, null

VARIABLES part
VARIABLES nodes, ctx_list, ctx_list_head, n_ctx, answer, printed, alive   \* Lisp
VARIABLES files, parsing, yyin, config_inc, buffers                       \* Config
VARIABLES sections, inside, config, result, leftover

nickVars == <<own, user, others, up, down, me, wanted, rested, wish, forgotten>>
reminderVars == <<called, present, listening, reminders, remindercnt, given>>
elizaVars == <<named, member, joined, conversations, answers, kb, sane, told>>
lispVars == <<nodes, ctx_list, ctx_list_head, n_ctx, answer, printed, alive>>
yxVars == <<now, cur_state, left, ran, said, since>>
infoVars == <<buf, copy, info, line, taken>>
confVars == <<files, parsing, yyin, config_inc, buffers, sections, inside, config, result, leftover>>
allVars == <<part, vars, nickVars, reminderVars, elizaVars, lispVars, yxVars, infoVars, confVars>>

-----------------------------------------------------------------------------
Rec(n, l) == [name |-> n, level |-> l]
FirstFiles == {<<Rec(a, 2)>>, Absent}

S(what, of) == [what |-> what, of |-> of]
V(words) == S("var", words \o <<"nul">>)

KnowledgeFiles == {
  <<S("pri", 5), S("syn", "hi"), S("key", "i"), S("resp", "r0"), S("pri", 1),
    V(<<"you", "gap", "i">>), S("resp", "r1"), V(<<"i", "gap", "you">>), S("resp", "r2"),
    S("key", "you"), S("goto", "i"), S("pri", 2), V(<<"you">>)>>,
  <<S("key", "i"), V(<<"you", "gap", "i">>), S("resp", "r1"), V(<<"i", "gap", "you">>), S("resp", "r2"),
    V(<<"you">>), S("key", "hi"), S("goto", "me"), V(<<"hi">>), S("resp", "r3")>> }

\* The last two end in a separator, with other words behind them in memory.
Messages == {
  <<"nul">>, <<"i", "nul">>, <<"you", "nul">>, <<"i", "gap", "you", "nul">>, <<"you", "gap", "i", "nul">>,
  <<"i", "gap", "nul", "you", "nul">>, <<"hi", "gap", "nul", "nul", "i", "nul">> }

Sym == [type |-> "symbol", width |-> 1]
Big == [type |-> "integer", width |-> 11]
Nil == [type |-> "nil"]
Proc == [type |-> "closure"]
Pair(car, cdr) == [type |-> "pair", car |-> car, cdr |-> cdr]

Expressions ==
  {<<v>> : v \in {Pair(x, y) : x \in {Nil, Sym}, y \in {Nil, Sym, Proc, Pair(Sym, Sym)}}
                 \cup {Pair(Pair(Sym, Nil), Pair(Big, Pair(Sym, Nil)))}}
  \cup {<<Nil, [type |-> "syntax error"], Nil>>,
        <<[type |-> "error", width |-> 3], [type |-> "string", width |-> 0],
          [type |-> "decimal", width |-> 13], [type |-> "env"], [type |-> "prim"]>>}

L == INSTANCE Lisp WITH
       Name <- {a, b, c}, Cell <- 1 .. 3, NULL <- null, MAX_CTX <- 3, Inputs <- Expressions,
       heap <- nodes

Space == "space"
Colon == "colon"
ServerLines == {
  <<"CMD">>, <<Colon, "s">>, <<"CMD", Space, Space, "x">>, <<"CMD", Space, "x", Space, Colon>>,
  <<Colon, "s", Space, "CMD", Space, "x", Space, Colon, "!c", Space, Space, "y", Space>>,
  <<"CMD", Space, "x", Space, Colon, "bot", Colon, Space, "y">>,
  <<"CMD", Space, "x", Space, Colon, Space, "y", Space, "bot">>,
  <<"CMD", Space, "x", Space, "y", Space, Colon, "z">>,
  <<Colon, "s", Space, "CMD", Space, Colon, "!c">> }

Sec(n) == [what |-> "section", name |-> n]
Key(n, v) == [what |-> "key", name |-> n, value |-> v]
Include(f) == [what |-> "include", name |-> f]
End == [what |-> "end"]

\* q is included by p, within a section or not, once or twice; it may be missing, include p, leave a section
\* open or have an error in it.
Configurations ==
  [{p} -> {<<Sec(a), Include(q), Key(a, 1), Key(b, 2), End, Sec(a), Key(b, 3), End>>,
           <<Include(q), Sec(b), Key(a, 1), Include(q), End>>}]
Included ==
  [{q} -> {<<Key(a, 4), Key(b, 5)>>, <<Sec(b), Key(b, 6), End>>, <<Key(b, 7), [what |-> "bad"]>>,
           <<Sec(a)>>, <<Include(p)>>, null}]

C == INSTANCE Config WITH
       File <- {p, q}, Start <- p, Missing <- null, Block <- 3, MaxIncludes <- 1,
       Contents <- {f @@ g : f \in Configurations, g \in Included}

-----------------------------------------------------------------------------
Parts == {"auth", "nick", "reminder", "eliza", "lisp", "yx", "info", "conf"}

\* One first state is enough for the parts that stay there.
StateInit ==
  /\ part \in Parts
  /\ Init /\ (part # "auth" => file = Absent)
  /\ N!Init /\ (part # "nick" => others = {})
  /\ R!Init /\ (part # "reminder" => {called[x] : x \in Person} = {Offline})
  /\ E!Init /\ (part # "eliza" => {named[x] : x \in Person} = {Offline} /\ kb.syns # <<>>)
  /\ L!Init /\ M!Init
  /\ Y!Init /\ (part # "yx" => now = 0)
  /\ C!Init /\ (part # "conf" => files[p][1] = Sec(a) /\ files[q] = null)

AuthPart ==
  /\ part = "auth" /\ Next
  /\ UNCHANGED <<part, nickVars, reminderVars, elizaVars, lispVars, yxVars, infoVars, confVars>>

NickPart(A) ==
  /\ part = "nick" /\ A
  /\ UNCHANGED <<part, vars, reminderVars, elizaVars, lispVars, yxVars, infoVars, confVars>>

ReminderPart ==
  /\ part = "reminder" /\ R!Next
  /\ UNCHANGED <<part, vars, nickVars, elizaVars, lispVars, yxVars, infoVars, confVars>>

ElizaPart ==
  /\ part = "eliza" /\ E!Next
  /\ UNCHANGED <<part, vars, nickVars, reminderVars, lispVars, yxVars, infoVars, confVars>>

LispPart ==
  /\ part = "lisp" /\ L!Next
  /\ UNCHANGED <<part, vars, nickVars, reminderVars, elizaVars, yxVars, infoVars, confVars>>

YxPart ==
  /\ part = "yx" /\ Y!Next
  /\ UNCHANGED <<part, vars, nickVars, reminderVars, elizaVars, lispVars, infoVars, confVars>>

InfoPart ==
  /\ part = "info" /\ M!Next
  /\ UNCHANGED <<part, vars, nickVars, reminderVars, elizaVars, lispVars, yxVars, confVars>>

ConfPart ==
  /\ part = "conf" /\ C!Next
  /\ UNCHANGED <<part, vars, nickVars, reminderVars, elizaVars, lispVars, yxVars, infoVars>>

StateNext ==
  \/ AuthPart \/ NickPart(N!Next) \/ ReminderPart \/ ElizaPart
  \/ LispPart \/ YxPart \/ InfoPart \/ ConfPart

\* The fairness of Nick, for the behaviours that are about it
StateFairness ==
  /\ WF_allVars(NickPart(N!ServerNick)) /\ WF_allVars(NickPart(N!ServerUser))
  /\ WF_allVars(NickPart(N!Reply)) /\ WF_allVars(NickPart(N!Timer)) /\ WF_allVars(NickPart(N!Rest))

StateSpec == StateInit /\ [][StateNext]_allVars /\ StateFairness

-----------------------------------------------------------------------------
\* nick.c:35
NickRegained == N!NickRegained
\* eliza.c:134, 497
ElizaReads == E!ElizaReads
\* lisp.c:75, asked of the steps of lisp.so only: the others leave the table as it is.
ImplementsTable == L!Table!Init /\ [][part = "lisp" => [L!Table!Next]_(L!Table!vars)]_allVars
\* lisp.c:147
PrintsLists == L!PrintsLists
\* confpar.y:87, 110
ConfigAsWritten == C!ConfigAsWritten
=============================================================================
