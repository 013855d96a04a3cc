----------------------------- MODULE ConfigFile -----------------------------
(***************************************************************************)
(* The configuration of the daemon: the parser of olsrd.conf               *)
(* (src/cfgparser/oparse.y, oscan.lex), the command line (src/main.c), the *)
(* sanity check that completes the parsed values                           *)
(* (src/cfgparser/olsrd_conf.c) and the generator that writes a            *)
(* configuration back as a file (src/cfgparser/cfgfile_gen.c).             *)
(*                                                                         *)
(* A file is a sequence of statements, and a statement is a tuple:         *)
(*   <<"opt", o, v>>           the global option o gets the value v        *)
(*   <<"if", names, body>>     an Interface block for a list of names      *)
(*   <<"ifdef", body>>         an InterfaceDefaults block                  *)
(*   <<"plugin", name, ps>>    a LoadPlugin block with its PlParams        *)
(*   <<"egress", names>>       SmartGatewayEgressInterfaces                *)
(*   <<"hna", v, p>>           an entry p of an Hna4 or Hna6 block         *)
(*   <<"script">>              SmartGatewayPolicyRoutingScript             *)
(* The body of an interface block is a sequence of <<"set", o, v>> and     *)
(* <<"mult", addr, v>> (LinkQualityMult; multipliers are in percent).      *)
(* Booleans are 0 and 1.  "plain" stands for the options that the parser   *)
(* stores, the check lets pass, and the generator writes when they differ  *)
(* from their default; "mute" for those the generator never writes         *)
(* (MinTCVTime, SetIpForward).                                             *)
(*                                                                         *)
(* An interface's configuration is parsed into two copies, one that starts *)
(* as all zeros and one that starts as all ones; a byte that differs       *)
(* between them was never set.  Here an option that was never set is UNSET.*)
(*                                                                         *)
(* A definition named <def>_<Word> is a mutated form of <def>.             *)
(***************************************************************************)
EXTENDS Integers, Sequences, SequencesExt, FiniteSets

CONSTANTS
  Vocabularies,  \* name -> [start, stmts, len, files, args, nargs]: what a run may write
  TABLES_MAX,    \* the highest routing table number (2^31 in the code)
  RULES_MAX,     \* the highest rule priority (2^32 - 1 in the code)
  EGRESS_MAX     \* MAX_SMARTGW_EGRESS_INTERFACE_COUNT_MAX

VARIABLES
  cf,    \* the configuration olsr_cnf
  argif, \* the interface settings of the command line (default_ifcnf)
  text,  \* the statements of the files read so far, one sequence per file
  args,  \* the arguments processed so far
  voc,   \* the vocabulary of this behaviour
  stage  \* "file", "args", "run", "exit" or "crash"

cf_vars == <<cf, argif, text, args, voc, stage>>

AUTO == 0
NONE == -1
UNSET == -99
RTPROT_BOOT == 3
PRI_BASE == 32766
PRI_ADDER == 10
ANY == "any"
FULL == 100

BuiltinIf == [mode |-> 0, hello_int |-> 2, hello_val |-> 20, autodetect |-> 1]

IfOpts == DOMAIN BuiltinIf

get_default_if_config == [set |-> BuiltinIf, mults |-> <<>>]

set_default_cnf ==
  [g |-> [debug |-> 1, ip |-> 4, tos |-> 192, willingness |-> 3, hyst |-> 0, lq_level |-> 2, niit |-> 1,
          mpr_coverage |-> 7, rt_proto |-> 0, table |-> AUTO, table_default |-> AUTO, table_tunnel |-> AUTO,
          pri |-> AUTO, olsr_pri |-> AUTO, tunnel_pri |-> AUTO, default_pri |-> AUTO, smart_gw |-> 0,
          use_count |-> 1, tables |-> 90, rules |-> 0, script |-> 0, stable |-> 6, thresh |-> 0,
          plain |-> 1, mute |-> 0],
   maxplen |-> 32, ifs |-> <<>>, ifdef |-> <<>>, plugins |-> <<>>, egress |-> <<>>, hna |-> <<>>,
   in_curr |-> 0, egress_count |-> 0, rc |-> "ok"]

Fail(c, why) == [c EXCEPT !.rc = why]

Where(seq, name) == {i \in 1..Len(seq) : seq[i].name = name}

(***************************************************************************)
(* The parser.                                                             *)
(***************************************************************************)

\* The entry with that name leaves the list, or a fresh one is made.
Take(seq, name, fresh) ==
  IF Where(seq, name) = {} THEN fresh ELSE seq[CHOOSE i \in Where(seq, name) : TRUE]

Without(seq, name) == SelectSeq(seq, LAMBDA e : e.name # name)

ifnick(c, name) ==
  LET in == Take(c.ifs, name, [name |-> name, set |-> [o \in IfOpts |-> UNSET], mults |-> <<>>])
  IN [c EXCEPT !.ifs = <<in>> \o Without(@, name), !.in_curr = @ + 1]

\* SET_IFS_CONF: the first ifs_in_curr_cfg interfaces of the list get the value.
SetIfsConf(c, o, v) ==
  IF c.in_curr > Len(c.ifs) THEN Fail(c, "crash")
  ELSE [c EXCEPT !.ifs = [i \in DOMAIN @ |-> IF i <= c.in_curr THEN [@[i] EXCEPT !.set[o] = v] ELSE @[i]]]

lq_mult_helper(c, addr, v) ==
  IF c.in_curr > Len(c.ifs) THEN Fail(c, "crash")
  ELSE [c EXCEPT !.ifs = [i \in DOMAIN @ |-> IF i <= c.in_curr
                            THEN [@[i] EXCEPT !.mults = <<[addr |-> addr, value |-> v]>> \o @] ELSE @[i]]]

ifstmt(c, s) ==
  IF c.rc # "ok" THEN c
  ELSE IF s[1] = "set" THEN SetIfsConf(c, s[2], s[3]) ELSE lq_mult_helper(c, s[2], s[3])

ifblock(c, names, body) == FoldLeft(ifstmt, FoldLeft(ifnick, [c EXCEPT !.in_curr = 0], names), body)

\* The defaults are parsed as the only interface of a block, which then leaves the list.
ifdblock(c, body) ==
  LET in == [name |-> "", set |-> BuiltinIf, mults |-> <<>>]
      d == FoldLeft(ifstmt, [c EXCEPT !.ifs = <<in>> \o @, !.in_curr = 1], body)
  IN [d EXCEPT !.ifdef = <<[set |-> Head(d.ifs).set, mults |-> Head(d.ifs).mults]>>,
               !.ifs = Tail(@), !.in_curr = 0]

plparam(c, p) == [c EXCEPT !.plugins[1].params = <<p>> \o @]

plblock(c, name, ps) ==
  LET pe == Take(c.plugins, name, [name |-> name, params |-> <<>>])
  IN FoldLeft(plparam, [c EXCEPT !.plugins = <<pe>> \o Without(@, name)], ps)

sgw_egress_if(c, name) == [c EXCEPT !.egress = Append(SelectSeq(@, LAMBDA n : n # name), name)]

\* An entry of the other family is skipped with a warning.
ihnaentry(c, v, p) == IF c.g.ip = v THEN [c EXCEPT !.hna = <<p>> \o @] ELSE c

iipversion(c, v) ==
  IF v \in {4, 6} THEN [c EXCEPT !.g.ip = v, !.maxplen = IF v = 4 THEN 32 ELSE 128] ELSE Fail(c, "abort")

\* The statements that only store their value.
AgentOpts == {"debug", "tos", "plain"}
RtOpts == {"rt_proto", "table", "table_default", "table_tunnel", "pri", "olsr_pri", "tunnel_pri", "default_pri"}
ProtocolOpts == {"willingness", "hyst", "mpr_coverage", "lq_level", "mute", "niit"}
SmartGwOpts == {"smart_gw", "use_count", "script"}
OffsetOpts == {"tables", "rules", "stable", "thresh"}

stmt(c, o, v) ==
  IF o \in AgentOpts \cup RtOpts \cup ProtocolOpts \cup SmartGwOpts \cup OffsetOpts
  THEN [c EXCEPT !.g[o] = v] ELSE Fail(c, "abort")

Parse1(c, s) ==
  CASE c.rc # "ok" -> c
    [] c.rc = "ok" /\ s[1] = "opt" -> IF s[2] = "ip" THEN iipversion(c, s[3]) ELSE stmt(c, s[2], s[3])
    [] c.rc = "ok" /\ s[1] = "if" -> ifblock(c, s[2], s[3])
    [] c.rc = "ok" /\ s[1] = "ifdef" -> ifdblock(c, s[2])
    [] c.rc = "ok" /\ s[1] = "plugin" -> plblock(c, s[2], s[3])
    [] c.rc = "ok" /\ s[1] = "egress" -> FoldLeft(sgw_egress_if, c, s[2])
    [] c.rc = "ok" /\ s[1] = "hna" -> ihnaentry(c, s[2], s[3])
    [] c.rc = "ok" /\ s[1] = "script" -> stmt(c, "script", 1)
    [] c.rc = "ok" /\ s[1] = "syntax" -> Fail(c, "abort")

\* At the end of a file the queue of interfaces is reversed.
olsrd_parse_cnf(c) == [c EXCEPT !.ifs = Reverse(@)]

(***************************************************************************)
(* The command line: <<"-i", n>>, <<"-hint", v>>, <<"-ipv6", 0>> and       *)
(* <<"-lql", v>>.                                                          *)
(***************************************************************************)

\* A second interface of the same name is refused; a new one is put in front.
olsr_create_olsrif(c, name) ==
  IF Where(c.ifs, name) # {} THEN c
  ELSE [c EXCEPT !.ifs = <<[name |-> name, set |-> [o \in IfOpts |-> UNSET], mults |-> <<>>]>> \o @]

Argument(c, a) ==
  CASE a[1] = "-i" -> olsr_create_olsrif(c, a[2])
    [] a[1] = "-ipv6" -> [c EXCEPT !.g.ip = 6]
    [] a[1] = "-lql" -> [c EXCEPT !.g.lq_level = a[2]]
    [] a[1] = "-hint" -> c

\* -hint sets the validity time to three intervals.
ArgumentIf(d, a) ==
  IF a[1] = "-hint" THEN [d EXCEPT !.set.hello_int = a[2], !.set.hello_val = 3 * a[2]] ELSE d

(***************************************************************************)
(* The sanity check.                                                       *)
(***************************************************************************)
Or(v, d) == IF v = AUTO THEN d ELSE v

\* The smart gateway's priorities: each automatic one is a step above the
\* one before it.
SgwPriorities(g) ==
  LET p0 == IF g.pri > 0 THEN g.pri ELSE PRI_BASE
      p1 == IF g.olsr_pri > 0 THEN g.olsr_pri ELSE p0 + PRI_ADDER
      p2 == IF g.tunnel_pri > 0 THEN g.tunnel_pri ELSE p1 + PRI_ADDER
      p3 == p2 + PRI_ADDER
  IN [g EXCEPT !.pri = Or(@, NONE), !.olsr_pri = Or(@, p1), !.tunnel_pri = Or(@, p2), !.default_pri = Or(@, p3)]

RtDefaults(g) ==
  IF g.smart_gw = 0
  THEN [g EXCEPT !.table = Or(@, 254), !.table_default = Or(@, 254), !.table_tunnel = 254, !.pri = Or(@, NONE),
                 !.olsr_pri = Or(@, NONE), !.tunnel_pri = Or(@, NONE), !.default_pri = Or(@, NONE)]
  ELSE SgwPriorities([g EXCEPT !.table = Or(@, 254), !.table_default = Or(@, 223), !.table_tunnel = Or(@, 224)])

\* A rule's priority is above that of every rule before it, and no rule
\* leads to one of the kernel's own tables.
RtPolicyOK(g) ==
  LET p1 == IF g.olsr_pri > 0 THEN g.olsr_pri ELSE g.pri
      p2 == IF g.tunnel_pri > 0 THEN g.tunnel_pri ELSE p1
  IN /\ g.pri > 0 => g.table < 253
     /\ g.olsr_pri > 0 => g.pri < g.olsr_pri /\ g.table_default < 253
     /\ g.tunnel_pri > 0 => p1 < g.tunnel_pri /\ g.table_tunnel < 253
     /\ g.default_pri > 0 => p2 < g.default_pri /\ g.table_default < 253

FilterProto(g) == [g EXCEPT !.rt_proto = IF @ = 1 THEN 0 ELSE IF @ = 0 THEN RTPROT_BOOT ELSE @]

RangesOK(g) ==
  /\ g.debug \in 0..9 /\ g.tos <= 252 /\ g.tos % 4 = 0 /\ g.willingness <= 7 /\ g.mpr_coverage \in 1..20
  /\ ~(g.hyst = 1 /\ g.lq_level # 0) /\ g.lq_level \in {0, 2}

SgwRangesOK(g) == g.use_count \in 1..64 /\ g.stable \in 1..254 /\ g.thresh \in {0} \cup 10..100

InRange(v, low, high) == low <= v /\ v <= high

Overlap(l1, h1, l2, h2) == InRange(l1, l2, h2) \/ InRange(h1, l2, h2) \/ InRange(l2, l1, h1) \/ InRange(h2, l1, h1)

NrOfTables(c) == 1 + c.egress_count + c.g.use_count
NrOfBypassRules(c) == c.egress_count + Len(c.ifs)
NrOfRules(c) == NrOfBypassRules(c) + NrOfTables(c)

TablesOK(c) ==
  /\ c.g.tables # 0 /\ c.g.tables <= TABLES_MAX - NrOfTables(c) + 1
  /\ ~Overlap(c.g.tables, c.g.tables + NrOfTables(c), 253, 255)
  /\ c.g.rules = 0 => ~InRange(c.g.tables, 1, NrOfBypassRules(c))

RulesDefault(c) == [c EXCEPT !.g.rules = IF @ = 0 THEN c.g.tables - NrOfBypassRules(c) ELSE @]

RulesOK(c) ==
  /\ c.g.rules # 0 /\ c.g.rules <= RULES_MAX - NrOfRules(c)
  /\ ~Overlap(c.g.rules, c.g.rules + NrOfRules(c), 32766, 32767)

\* More than one gateway at a time needs IPv4, the script, and egress
\* interfaces that are not OLSR interfaces.
MultiGw(c) ==
  LET n == [c EXCEPT !.egress_count = @ + Len(c.egress)]
      d == RulesDefault(n)
  IN IF c.g.use_count <= 1 THEN c
     ELSE IF /\ c.g.ip = 4 /\ c.g.script = 1 /\ c.egress # <<>>
             /\ \A i \in DOMAIN c.egress : Where(c.ifs, c.egress[i]) = {}
             /\ n.egress_count <= EGRESS_MAX /\ TablesOK(n) /\ RulesOK(d)
          THEN d ELSE Fail(c, "reject")

MergeMults_All(own, def) == own \o Reverse(def)

\* The default multipliers that the interface does not name itself follow its own.
MergeMults(own, def) ==
  own \o Reverse(SelectSeq(def, LAMBDA m : \A i \in DOMAIN own : own[i].addr # m.addr))

ApplyDefaults(in, def) ==
  [in EXCEPT !.set = [o \in IfOpts |-> IF @[o] = UNSET THEN def.set[o] ELSE @[o]],
             !.mults = MergeMults(@, def.mults)]

IfOK(in) == /\ in.set.hello_int >= 1 /\ in.set.hello_int <= in.set.hello_val
            /\ \A i \in DOMAIN in.mults : in.mults[i].value <= FULL

Interfaces(c) ==
  LET def == IF c.ifdef = <<>> THEN get_default_if_config ELSE c.ifdef[1]
      done == [i \in DOMAIN c.ifs |-> ApplyDefaults(c.ifs[i], def)]
  IN IF \A i \in DOMAIN done : IfOK(done[i]) THEN [c EXCEPT !.ifs = done, !.ifdef = <<def>>]
     ELSE Fail(c, "reject")

olsrd_sanity_check_cnf(c) ==
  LET g == RtDefaults(c.g) IN
  IF ~RangesOK(c.g) \/ ~SgwRangesOK(c.g) \/ ~RtPolicyOK(g) \/ c.ifs = <<>> THEN Fail(c, "reject")
  ELSE LET d == MultiGw([c EXCEPT !.g = FilterProto(g)]) IN IF d.rc # "ok" THEN d ELSE Interfaces(d)

(***************************************************************************)
(* The generator.  A value that is the default is written as a comment.    *)
(***************************************************************************)
Write(o, v, def) == IF v = def THEN <<>> ELSE <<<<"opt", o, v>>>>

WriteAll(g, opts) == FoldLeft(LAMBDA t, o : t \o Write(o, g[o], set_default_cnf.g[o]), <<>>, opts)

WriteTables(g) ==
  IF g.smart_gw = 0
  THEN Write("table", g.table, 254) \o Write("table_default", g.table_default, 254)
       \o Write("table_tunnel", g.table_tunnel, 254)
  ELSE Write("table", g.table, 254) \o Write("table_default", g.table_default, 223)
       \o Write("table_tunnel", g.table_tunnel, 224)

WritePriorities(g) ==
  IF g.smart_gw = 0
  THEN Write("pri", g.pri, NONE) \o Write("olsr_pri", g.olsr_pri, NONE)
       \o Write("tunnel_pri", g.tunnel_pri, NONE) \o Write("default_pri", g.default_pri, NONE)
  ELSE Write("pri", g.pri, NONE) \o Write("olsr_pri", g.olsr_pri, PRI_BASE + PRI_ADDER)
       \o Write("tunnel_pri", g.tunnel_pri, PRI_BASE + 2 * PRI_ADDER)
       \o Write("default_pri", g.default_pri, PRI_BASE + 3 * PRI_ADDER)

\* An interface's options that differ from the built-in defaults.  Without comments
\* if_appendf leaves out a line whose first text is not empty: meant for "# ", it
\* leaves out every multiplier, whose first text is its address.
olsrd_write_if_autobuf(in, comments) ==
  FoldLeft(LAMBDA t, o : IF in.set[o] = BuiltinIf[o] THEN t ELSE Append(t, <<"set", o, in.set[o]>>), <<>>,
           <<"mode", "hello_int", "hello_val">>)
  \o (IF comments THEN [i \in DOMAIN in.mults |-> <<"mult", in.mults[i].addr, in.mults[i].value>>] ELSE <<>>)

WriteAgent(g) == WriteAll(g, <<"debug", "ip", "tos">>) \o Write("rt_proto", g.rt_proto, RTPROT_BOOT)

\* The script's path is written without its quotes, which the parser does not read.
WriteSmartGw(c) ==
  Write("niit", c.g.niit, IF c.g.ip = 4 THEN 0 ELSE 1) \o WriteAll(c.g, <<"smart_gw", "use_count">>)
  \o (IF c.g.script = 0 THEN <<>> ELSE <<<<"syntax">>>>)
  \o (IF c.egress = <<>> THEN <<>> ELSE <<<<"egress", c.egress>>>>)

WriteOffsets(g) == WriteAll(g, <<"tables", "rules", "stable", "thresh">>)

WriteHna(c) == [i \in DOMAIN c.hna |-> <<"hna", c.g.ip, c.hna[i]>>]

WriteProtocol(g) == WriteAll(g, <<"hyst", "mpr_coverage", "lq_level", "plain">>)

WritePlugins(c) == [i \in DOMAIN c.plugins |-> <<"plugin", c.plugins[i].name, c.plugins[i].params>>]

olsrd_write_cnf_autobuf(c) ==
  WriteAgent(c.g) \o WriteTables(c.g) \o WritePriorities(c.g) \o WriteSmartGw(c) \o WriteOffsets(c.g)
  \o WriteAll(c.g, <<"willingness">>) \o WriteHna(c) \o WriteProtocol(c.g) \o WritePlugins(c)
  \o <<<<"ifdef", olsrd_write_if_autobuf(c.ifdef[1], FALSE)>>>>
  \o [i \in DOMAIN c.ifs |-> <<"if", <<c.ifs[i].name>>, olsrd_write_if_autobuf(c.ifs[i], i = 1)>>]

\* What a daemon started with the file written for c would run with.
Reread(c) ==
  LET d == FoldLeft(Parse1, set_default_cnf, olsrd_write_cnf_autobuf(c))
  IN IF d.rc = "ok" THEN olsrd_sanity_check_cnf(olsrd_parse_cnf(d)) ELSE d

(***************************************************************************)
(* The multiplier of a link to a neighbour's address.                      *)
(***************************************************************************)
set_loss_link_multiplier(mults, a) ==
  LET val == FoldLeft(LAMBDA v, m : IF (m.addr = ANY /\ v = 0) \/ m.addr = a THEN m.value ELSE v, 0, mults)
  IN IF val = 0 THEN FULL ELSE val

(***************************************************************************)
(* A start of the daemon: files, then arguments, then the check.           *)
(***************************************************************************)
CfInit ==
  /\ voc \in DOMAIN Vocabularies
  /\ cf = FoldLeft(Parse1, set_default_cnf, Vocabularies[voc].start) /\ text = <<Vocabularies[voc].start>>
  /\ argif = get_default_if_config /\ args = <<>> /\ stage = "file"

Said == FoldLeft(LAMBDA n, f : n + Len(f), 0, text)

\* One more statement of the file is parsed.
Statement ==
  /\ stage = "file" /\ Said < Vocabularies[voc].len
  /\ \E s \in Vocabularies[voc].stmts :
       /\ cf' = Parse1(cf, s)
       /\ text' = [text EXCEPT ![Len(text)] = Append(@, s)]
       /\ stage' = IF cf'.rc = "ok" THEN "file" ELSE IF cf'.rc = "crash" THEN "crash" ELSE "exit"
  /\ UNCHANGED <<argif, args, voc>>

EndOfFile ==
  /\ stage = "file" /\ cf' = olsrd_parse_cnf(cf)
  /\ \/ stage' = "args" /\ text' = text
     \/ Len(text) < Vocabularies[voc].files /\ stage' = "file" /\ text' = Append(text, <<>>)
  /\ UNCHANGED <<argif, args, voc>>

Process ==
  /\ stage = "args" /\ Len(args) < Vocabularies[voc].nargs
  /\ \E a \in Vocabularies[voc].args :
       cf' = Argument(cf, a) /\ argif' = ArgumentIf(argif, a) /\ args' = Append(args, a)
  /\ UNCHANGED <<text, voc, stage>>

\* set_default_ifcnfs finds no interface without a configuration, so the
\* settings of the command line go nowhere.
Check ==
  /\ stage = "args" /\ cf' = olsrd_sanity_check_cnf(cf)
  /\ stage' = IF cf'.rc = "ok" THEN "run" ELSE "exit"
  /\ UNCHANGED <<argif, text, args, voc>>

Settled == stage \in {"run", "exit", "crash"} /\ UNCHANGED cf_vars

CfNext == Statement \/ EndOfFile \/ Process \/ Check \/ Settled

CfSpec == CfInit /\ [][CfNext]_cf_vars

(***************************************************************************)
(* Properties                                                              *)
(***************************************************************************)

\* Type invariant of the configuration: every interface, plugin and egress
\* interface stands in its list once, whatever the files and the command line
\* repeat, and a checked configuration has no unset option left.
CfTypeOK ==
  /\ stage \in {"file", "args", "run", "exit", "crash"} /\ cf.rc \in {"ok", "abort", "crash", "reject"}
  /\ \A l \in {cf.ifs, cf.plugins} : \A i \in DOMAIN l : Cardinality(Where(l, l[i].name)) = 1
  /\ stage = "run" => \A i \in DOMAIN cf.ifs : \A o \in IfOpts : cf.ifs[i].set[o] # UNSET

AllText == FoldLeft(LAMBDA t, f : t \o f, <<>>, text)

Blocks(name) == SelectSeq(AllText, LAMBDA s : s[1] = "if" /\ \E i \in DOMAIN s[2] : s[2][i] = name)

LastSet(body, o, def) ==
  FoldLeft(LAMBDA v, s : IF s[1] = "set" /\ s[2] = o THEN s[3] ELSE v, def, body)

DefaultOf(o) ==
  FoldLeft(LAMBDA v, s : IF s[1] = "ifdef" THEN LastSet(s[2], o, BuiltinIf[o]) ELSE v, BuiltinIf[o], AllText)

Intended(name, o) == FoldLeft(LAMBDA v, s : LastSet(s[3], o, v), DefaultOf(o), Blocks(name))

\* Some block names one interface twice.
Doubled ==
  \E i \in DOMAIN AllText : AllText[i][1] = "if" /\ Cardinality(ToSet(AllText[i][2])) < Len(AllText[i][2])

\* The daemon runs with the settings its files give: an option of an
\* interface has the value of the last block that names the interface and
\* sets it, else that of the last InterfaceDefaults block, wherever that block
\* stands, else the built-in one (oparse.y SET_IFS_CONF, olsrd_conf.c apply
\* defaults).  A block that names an interface twice is left out: there the
\* settings run over to the next interface of the list.
SettingsReach ==
  stage = "run" /\ ~Doubled =>
    \A i \in DOMAIN cf.ifs : \A o \in IfOpts : cf.ifs[i].set[o] = Intended(cf.ifs[i].name, o)

\* Names in the order of their last mention.
InOrder(names) == FoldLeft(LAMBDA t, n : Append(SelectSeq(t, LAMBDA m : m # n), n), <<>>, names)

NamesOf(kind) == FoldLeft(LAMBDA t, s : IF s[1] = kind THEN t \o s[2] ELSE t, <<>>, AllText)

\* The interfaces of one file are used in the order of their last mention, so
\* that the first one gives the main address, and so are the egress interfaces
\* of any number of files (olsrd_conf.c "Reverse the queue").  A second file
\* reverses the interfaces of the first one again.
ListsInOrder ==
  stage = "run" =>
    /\ Len(text) = 1 /\ args = <<>> => [i \in DOMAIN cf.ifs |-> cf.ifs[i].name] = InOrder(NamesOf("if"))
    /\ cf.egress = InOrder(NamesOf("egress"))

\* A plugin keeps the parameters of all the blocks that load it, the latest
\* first (oparse.y plblock, plparam).
PluginsComplete ==
  \A i \in DOMAIN cf.plugins :
    cf.plugins[i].params =
      Reverse(FoldLeft(LAMBDA t, s : IF s[1] = "plugin" /\ s[2] = cf.plugins[i].name THEN t \o s[3] ELSE t,
                       <<>>, AllText))

\* "RtTablePriority less than RtTableDefaultOlsrPriority less than
\* RtTableTunnelPriority less than RtTableDefaultPriority" (cfgfile_gen.c):
\* in a configuration the daemon runs with, the priorities that are set rise
\* in that order, none is left automatic, and no rule leads to a table of the
\* kernel.
RulesOrdered ==
  LET g == cf.g
      pris == SelectSeq(<<g.pri, g.olsr_pri, g.tunnel_pri, g.default_pri>>, LAMBDA p : p > 0)
  IN stage = "run" =>
       /\ \A i \in 1..Len(pris) - 1 : pris[i] < pris[i + 1]
       /\ AUTO \notin {g.pri, g.olsr_pri, g.tunnel_pri, g.default_pri, g.table, g.table_default, g.table_tunnel}
       /\ g.pri > 0 => g.table < 253
       /\ g.olsr_pri > 0 \/ g.default_pri > 0 => g.table_default < 253
       /\ g.tunnel_pri > 0 => g.table_tunnel < 253

\* As many tables and rules as several simultaneous gateways take, counted from
\* their offsets, stay clear of zero, of their limits and of the kernel's tables
\* 253 to 255 and rules 32766 and 32767; with the default rule offset the table
\* rules have the tables' numbers (olsrd_conf.c smart_gw_offset_tables,
\* smart_gw_offset_rules).  The end of a range that the code compares is one past
\* the last number taken.
RangesFree ==
  stage = "run" /\ cf.g.use_count > 1 =>
    LET ts == cf.g.tables..cf.g.tables + NrOfTables(cf) - 1
        rs == cf.g.rules..cf.g.rules + NrOfRules(cf) - 1
    IN /\ ts \subseteq 1..TABLES_MAX /\ ts \cap 253..255 = {}
       /\ rs \subseteq 1..RULES_MAX /\ rs \cap {32766, 32767} = {}
       /\ (~\E i \in DOMAIN AllText : AllText[i][1] = "opt" /\ AllText[i][2] = "rules") =>
            cf.g.rules + NrOfBypassRules(cf) = cf.g.tables

Given(body, a) == {body[j][3] : j \in {k \in DOMAIN body : body[k][1] = "mult" /\ body[k][2] = a}}

OwnMults(name, a) == UNION {Given(Blocks(name)[i][3], a) : i \in DOMAIN Blocks(name)}

DefMults(a) == FoldLeft(LAMBDA m, s : IF s[1] = "ifdef" THEN Given(s[2], a) ELSE m, {}, AllText)

\* mult is of the first of some sets that is not empty.
FirstGiven(sets, mult) ==
  LET given == {i \in DOMAIN sets : sets[i] # {}}
  IN 0 \notin UNION ToSet(sets) => IF given = {} THEN mult = FULL ELSE mult \in sets[Min(given)]

\* "use the default multiplier only if there isn't any entry that has a
\* matching IP address" (link_set.c:338): the link to a neighbour gets a
\* multiplier its interface's blocks give for that address, else one the
\* InterfaceDefaults give for it, else a general one in the same order, else
\* none.  A multiplier of zero is left out: it counts as none.
MultiplierMatches ==
  stage = "run" /\ ~Doubled => \A i \in DOMAIN cf.ifs : \A a \in {"n1", "n2"} :
    FirstGiven(<<OwnMults(cf.ifs[i].name, a), DefMults(a), OwnMults(cf.ifs[i].name, ANY), DefMults(ANY)>>,
               set_loss_link_multiplier(cf.ifs[i].mults, a))

\* The options that survive being written and read again.
Written == DOMAIN cf.g \ {"mute", "script", "rt_proto"}

\* A daemon that runs with d instead of cf is the same one.
Describes(d) ==
  /\ d.rc = "ok"
  /\ \A o \in Written : d.g[o] = cf.g[o]
  /\ cf.g.rt_proto # 0 => d.g.rt_proto = cf.g.rt_proto
  /\ d.egress = cf.egress /\ d.hna = Reverse(cf.hna)
  /\ [i \in DOMAIN d.plugins |-> d.plugins[i].name] = Reverse([i \in DOMAIN cf.plugins |-> cf.plugins[i].name])
  /\ [i \in DOMAIN d.ifs |-> d.ifs[i].name] = [i \in DOMAIN cf.ifs |-> cf.ifs[i].name]
  /\ \A i \in DOMAIN cf.ifs : \A o \in IfOpts \ {"autodetect"} :
       cf.ifs[i].set[o] # BuiltinIf[o] \/ cf.ifdef[1].set[o] = BuiltinIf[o] =>
         d.ifs[i].set[o] = cf.ifs[i].set[o]
  /\ LET mults == cf.ifs[1].mults
     IN (\A j, k \in DOMAIN mults : mults[j].value > 0 /\ (mults[j].addr = mults[k].addr => j = k)) =>
          \A a \in {"n1", "n2"} :
            set_loss_link_multiplier(d.ifs[1].mults, a) = set_loss_link_multiplier(mults, a)

AutomaticGiven ==
  \E i \in DOMAIN AllText :
    AllText[i] \in {<<"opt", "olsr_pri", PRI_BASE + PRI_ADDER>>, <<"opt", "tunnel_pri", PRI_BASE + 2 * PRI_ADDER>>,
                   <<"opt", "default_pri", PRI_BASE + 3 * PRI_ADDER>>}

\* A file the daemon writes describes the daemon that wrote it
\* (cfgfile_gen.c): started from that file, a daemon runs with the same
\* options, the same interfaces in the same order with the same settings, the
\* same multipliers of the first one, and the same egress interfaces, HNA entries
\* and plugins.  It is stated for what the generator can write: no policy script,
\* whose path loses its quotes; in smart gateway mode no priority given as the very
\* number it would have if all were automatic; interface settings where the
\* InterfaceDefaults do not change what the interface sets back; and one positive
\* multiplier for each address.  The multipliers of the other interfaces are lost.
Regenerates ==
  stage = "run" /\ cf.g.script = 0 /\ (cf.g.smart_gw = 1 => ~AutomaticGiven) => Describes(Reread(cf))

\* The daemon runs as its files say, and as it would run from the file it writes.
CfFollowsFiles ==
  /\ CfTypeOK /\ SettingsReach /\ ListsInOrder /\ PluginsComplete /\ RulesOrdered
  /\ RangesFree /\ MultiplierMatches /\ Regenerates
=============================================================================
