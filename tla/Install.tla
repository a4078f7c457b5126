------------------------------- MODULE Install -------------------------------
(***************************************************************************)
(* `famp install-<host>` and `famp uninstall-<host>` for the hosts          *)
(* claude-code, codex and grok.  A command is a fixed program of steps: it  *)
(* merges keys into the host's own configuration files and writes or        *)
(* removes whole files FAMP owns.  A merge reads the file in one step and   *)
(* replaces it by rename in a later one, so the user (or the host itself),  *)
(* or a second command, may write in between, and a command may be killed   *)
(* between any two steps.                                                   *)
(*                                                                          *)
(* A configuration file is abstracted to the FAMP leaf of its MCP table     *)
(* (mcp), its Stop-hook array (stop: a sequence of groups of commands), the *)
(* hook-trust table Codex keeps (trust: <<group, handler>> to the command   *)
(* whose hash is trusted) and the user's other keys (other).                *)
(***************************************************************************)
EXTENDS Naturals, Sequences, SequencesExt, Functions, FiniteSets, TLC

CONSTANTS
    Procs,          \* shells that may run an installer at the same time
    Bins,           \* paths of validated famp executables
    None,           \* an absent leaf, file, or environment variable
    Broken,         \* a file the parser rejects, or whose shape is not a table
    Torn,           \* a whole-file write that was cut short
    Blank,          \* FAMP_INSTALL_FAMP_BIN set to white space
    Plans           \* the scenarios: see Init

VARIABLES
    plan,           \* the scenario: host, environments, budgets
    doc,            \* the merged files: "config" and "hooks"
    own,            \* the files FAMP writes whole
    cmd             \* the command each shell is running

vars == <<plan, doc, own, cmd>>

-----------------------------------------------------------------------------
(* The executable written into every generated file. *)

\* Only an executable regular file with a UTF-8 path is accepted; a candidate
\* found earlier in the order is never replaced by a later one.
validate_candidate(path) == IF path \in Bins THEN path ELSE None

\* FAMP_INSTALL_FAMP_BIN, then the running executable when its file name is
\* exactly famp, then the search path.
resolve_with(env) ==
    CASE env.explicit = Blank -> None
      [] env.explicit \notin {None, Blank} -> validate_candidate(env.explicit)
      [] env.explicit = None /\ env.current # None -> validate_candidate(env.current)
      [] OTHER -> validate_candidate(env.path)

-----------------------------------------------------------------------------
(* Stop-hook arrays.  A command string is "runner" or "await" (the shims),  *)
(* <<"codex", bin>> (the native helper of one binary), or the user's.       *)

CodexStop(bin) == <<"codex", bin>>

UserHooks == {<<"user", 1>>, <<"user", 2>>}

RunnerHook == <<"shim", "runner">>

AwaitHook == <<"shim", "await">>

\* The shim paths the command knows, and any `hook codex-stop` invocation
\* whatever the binary's path.
is_famp_command(hook) == hook[1] \in {"shim", "codex"}

M_remove_famp_hook_from_stop_entry(group) ==
    IF \E i \in DOMAIN group : is_famp_command(group[i]) THEN <<>> ELSE group

\* The entry without its FAMP commands; an entry left empty is dropped.
remove_famp_hook_from_stop_entry(group) ==
    SelectSeq(group, LAMBDA hook : ~is_famp_command(hook))

WithoutFamp(stop) ==
    SelectSeq([i \in DOMAIN stop |-> remove_famp_hook_from_stop_entry(stop[i])],
              LAMBDA group : group # <<>>)

\* Both installers append their own entries after what they keep.
build_stop_array(host, bin, stop) ==
    WithoutFamp(stop) \o
        IF host = "claude" THEN <<<<RunnerHook>>, <<AwaitHook>>>>
                           ELSE <<<<CodexStop(bin)>>>>

\* The trust keys of the FAMP commands in the array, in array order.
collect_removed_trust_keys(stop) ==
    SetToSeq({<<g, h>> \in (1..Len(stop)) \X (1..3) :
                 h \in DOMAIN stop[g] /\ is_famp_command(stop[g][h])})

M_surgical_remove_stop_entry(stop) ==
    LET kept == WithoutFamp(stop)
    IN  IF kept = <<>> THEN stop ELSE kept

\* What uninstall-claude-code writes: nothing when the array keeps its length,
\* even if a group lost a command.
surgical_remove_stop_entry(stop) ==
    LET kept == WithoutFamp(stop)
    IN  IF Len(kept) = Len(stop) THEN stop ELSE kept

\* The commands whose hash marks a trust entry as FAMP's own: the native helper
\* of this binary and the legacy shim.
famp_hook_command_patterns(bin) == {CodexStop(bin), AwaitHook}

\* Entries of this hooks.json with one of these hashes, but for the kept key.
remove_stale_codex_hook_trust(trust, keep, bin) ==
    Restrict(trust, {k \in DOMAIN trust :
                        k = keep \/ trust[k] \notin famp_hook_command_patterns(bin)})

-----------------------------------------------------------------------------
(* Programs.  <<"merge", file, edit>> reads and rewrites a configuration    *)
(* file; <<"build">> reads the Stop array ahead of the merge that writes    *)
(* it; <<"write", f>> and <<"remove", f>> touch one owned file.             *)

Merge(file, edit) == <<"merge", file, edit>>

\* install/claude_code.rs: the await shim is written after the Stop entry that
\* names it.
install_claude_code ==
    <<Merge("config", "mcp"), <<"write", "commands">>, <<"write", "runner">>,
      <<"build">>, Merge("hooks", "stop"), <<"write", "await">>>>

\* uninstall/claude_code.rs: the shims go before the Stop entries that name them.
uninstall_claude_code ==
    <<Merge("config", "unmcp"), <<"remove", "commands">>, <<"remove", "runner">>,
      <<"remove", "await">>, <<"build">>, Merge("hooks", "stop")>>

install_codex ==
    <<<<"probe">>, Merge("config", "mcp"), <<"remove", "await">>, <<"build">>,
      Merge("hooks", "stop"), Merge("config", "stale"), Merge("config", "seed")>>

uninstall_codex ==
    <<Merge("config", "unmcp"), <<"remove", "await">>, <<"build">>,
      Merge("hooks", "stop"), Merge("config", "keys"), Merge("config", "stale")>>

install_grok ==
    <<Merge("config", "mcp"), <<"write", "await">>, <<"write", "stopjson">>,
      <<"write", "skill">>>>

uninstall_grok ==
    <<Merge("config", "unmcp"), <<"remove", "skill">>, <<"remove", "stopjson">>,
      <<"remove", "await">>>>

Program(host, kind) ==
    CASE host = "claude" /\ kind = "install" -> install_claude_code
      [] host = "claude" /\ kind = "uninstall" -> uninstall_claude_code
      [] host = "codex" /\ kind = "install" -> install_codex
      [] host = "codex" /\ kind = "uninstall" -> uninstall_codex
      [] host = "grok" /\ kind = "install" -> install_grok
      [] host = "grok" /\ kind = "uninstall" -> uninstall_grok

-----------------------------------------------------------------------------
(* The running command: its next step (pc), the file content a merge has    *)
(* read (held), the Stop array, its source and the trust keys the build     *)
(* step computed, and whether nobody else has written since it began.       *)

Idle == [kind |-> "idle", did |-> "none", bin |-> None, alone |-> FALSE]

\* The command ran to its end; the record is what it leaves to look at.
Done(c) == [kind |-> "idle", did |-> c.kind, bin |-> c.bin, alone |-> c.alone]

Running(p) == cmd[p].kind # "idle"

Step(p) == Program(plan.host, cmd[p].kind)[cmd[p].pc]

AtLast(p) == cmd[p].pc = Len(Program(plan.host, cmd[p].kind))

\* Everyone else sees its files change under it.
Others(p) == [q \in Procs |-> IF q = p THEN cmd[q] ELSE [cmd[q] EXCEPT !.alone = FALSE]]

Advance(p, c) ==
    IF AtLast(p) THEN Done(c) ELSE [c EXCEPT !.pc = @ + 1, !.held = None]

\* A step that changes no file.
Pass(p, c) ==
    /\ cmd' = [cmd EXCEPT ![p] = Advance(p, c)]
    /\ UNCHANGED <<plan, doc, own>>

Fail(p) == cmd' = [cmd EXCEPT ![p] = Idle] /\ UNCHANGED <<plan, doc, own>>

\* uninstall-codex takes the binary from the entry it is about to remove, and
\* falls back on the bare name when there is none.
FampBin(kind, env) ==
    IF kind = "install" THEN resolve_with(env)
    ELSE IF doc["config"] = Broken THEN None ELSE doc["config"].mcp

run(p, kind, env) ==
    /\ ~Running(p) /\ plan.cmds > 0
    /\ plan' = [plan EXCEPT !.cmds = @ - 1]
    /\ cmd' = [cmd EXCEPT ![p] =
            IF kind = "install" /\ resolve_with(env) = None THEN Idle
            ELSE [kind |-> kind, did |-> "none", bin |-> FampBin(kind, env), pc |-> 1,
                  held |-> None, base |-> <<>>, built |-> <<>>, keys |-> <<>>,
                  alone |-> \A q \in Procs : ~Running(q)]]
    /\ UNCHANGED <<doc, own>>

\* `<famp> hook codex-stop --help` is run before anything is changed.
probe_codex_stop_support(p) ==
    /\ Running(p) /\ Step(p) = <<"probe">>
    /\ \/ Pass(p, cmd[p])
       \/ plan.probefails /\ Fail(p)

Build(p) ==
    /\ Running(p) /\ Step(p) = <<"build">>
    /\ \/ doc["hooks"] = Broken /\ Fail(p)
       \/ /\ doc["hooks"] # Broken
          /\ LET stop == doc["hooks"].stop
                 built == CASE cmd[p].kind = "install" ->
                                   build_stop_array(plan.host, cmd[p].bin, stop)
                            [] plan.host = "claude" -> surgical_remove_stop_entry(stop)
                            [] OTHER -> WithoutFamp(stop)
             IN  Pass(p, [cmd[p] EXCEPT !.base = stop, !.built = built,
                                        !.keys = IF cmd[p].kind = "install" THEN <<>>
                                                  ELSE collect_removed_trust_keys(stop)])

\* A leaf that already has the value, or is already absent, changes nothing.
upsert_codex_table(d, bin) == [d EXCEPT !.mcp = bin]

remove_codex_table(d) == [d EXCEPT !.mcp = None]

upsert_user_json(d, stop) == [d EXCEPT !.stop = stop]

remove_user_json(d) == [d EXCEPT !.stop = <<>>]

upsert_nested_table(d, key, hash) == [d EXCEPT !.trust = (key :> hash) @@ @]

remove_nested_table(d, key) == [d EXCEPT !.trust = Restrict(@, DOMAIN @ \ {key})]

\* Both uninstallers return before the merge when they find nothing to remove.
NothingToRemove(c) == c.kind = "uninstall" /\ c.built = c.base

\* The content of the file after the edit of one step.
Edited(c, edit, d) ==
    CASE edit = "mcp" -> upsert_codex_table(d, c.bin)
      [] edit = "unmcp" -> remove_codex_table(d)
      [] edit = "stop" /\ NothingToRemove(c) -> d
      [] edit = "stop" /\ ~NothingToRemove(c) ->
            IF c.built = <<>> THEN remove_user_json(d) ELSE upsert_user_json(d, c.built)
      [] edit = "stale" ->
            [d EXCEPT !.trust = remove_stale_codex_hook_trust(@,
                IF c.kind = "install" THEN <<Len(c.built), 1>> ELSE None, c.bin)]
      [] edit = "seed" -> upsert_nested_table(d, <<Len(c.built), 1>>, CodexStop(c.bin))
      [] edit = "keys" -> IF c.keys = <<>> THEN d ELSE remove_nested_table(d, c.keys[1])

\* The merge reads and parses the whole file; one it cannot parse ends the
\* command before anything is written.
read_toml_table(p) ==
    /\ Running(p) /\ Step(p)[1] = "merge" /\ cmd[p].held = None
    /\ \/ doc[Step(p)[2]] = Broken /\ Fail(p)
       \/ /\ doc[Step(p)[2]] # Broken
          /\ cmd' = [cmd EXCEPT ![p].held = doc[Step(p)[2]]]
          /\ UNCHANGED <<plan, doc, own>>

\* The file is replaced whole, from what was read, unless nothing changes.
\* uninstall-codex repeats the step for every trust key it collected.
persist_json(p) ==
    /\ Running(p) /\ Step(p)[1] = "merge" /\ cmd[p].held # None
    /\ LET c == cmd[p]
           file == Step(p)[2]
           new == Edited(c, Step(p)[3], c.held)
           next == IF Step(p)[3] = "keys" /\ Len(c.keys) > 1
                   THEN [c EXCEPT !.keys = Tail(@), !.held = None] ELSE Advance(p, c)
       IN  /\ doc' = IF new = c.held THEN doc ELSE [doc EXCEPT ![file] = new]
           /\ cmd' = [(IF doc' = doc THEN cmd ELSE Others(p)) EXCEPT ![p] = next]
    /\ UNCHANGED <<plan, own>>

\* A file FAMP owns is overwritten without looking at what was there.
WriteFile(p, f) ==
    /\ Running(p) /\ Step(p) = <<"write", f>>
    /\ own' = [own EXCEPT ![f] = cmd[p].bin]
    /\ cmd' = [Others(p) EXCEPT ![p] = Advance(p, cmd[p])]
    /\ UNCHANGED <<plan, doc>>

write_all(p) == WriteFile(p, "commands")

install_runner_shim(p) == WriteFile(p, "runner")

install_await_shim(p) == WriteFile(p, "await")

install_stop_hook_json(p) == WriteFile(p, "stopjson")

install_skill(p) == WriteFile(p, "skill")

\* A missing file is fine.
RemoveFile(p, f) ==
    /\ Running(p) /\ Step(p) = <<"remove", f>>
    /\ own' = [own EXCEPT ![f] = None]
    /\ cmd' = [Others(p) EXCEPT ![p] = Advance(p, cmd[p])]
    /\ UNCHANGED <<plan, doc>>

remove_all(p) == RemoveFile(p, "commands")

remove_runner_shim(p) == RemoveFile(p, "runner")

remove_await_shim(p) == RemoveFile(p, "await")

remove_stop_json(p) == RemoveFile(p, "stopjson")

\* A skill whose text is not the shipped one is the user's, and stays.
remove_skill_dir(p) ==
    \/ own["skill"] \in Bins \cup {None} /\ RemoveFile(p, "skill")
    \/ /\ own["skill"] \notin Bins \cup {None}
       /\ Running(p) /\ Step(p) = <<"remove", "skill">> /\ Pass(p, cmd[p])

\* The process dies between two steps, or inside a whole-file write; a merged
\* file is renamed into place and is never half written.
Kill(p) ==
    /\ Running(p) /\ plan.kills > 0
    /\ plan' = [plan EXCEPT !.kills = @ - 1]
    /\ \/ UNCHANGED own
       \/ Step(p)[1] = "write" /\ own' = [own EXCEPT ![Step(p)[2]] = Torn]
    /\ cmd' = [(IF own' = own THEN cmd ELSE Others(p)) EXCEPT ![p] = Idle]
    /\ UNCHANGED doc

-----------------------------------------------------------------------------
(* The user, or the host on the user's behalf, edits the same files.        *)

\* A Stop hook of the user's own, before or after what is there, or, in a
\* scenario that allows it, inside an existing group.
HookEdits(d) ==
    {[d EXCEPT !.stop = <<<<<<"user", 1>>>>>> \o @], [d EXCEPT !.stop = Append(@, <<<<"user", 1>>>>)]}
        \cup IF plan.joins THEN {[d EXCEPT !.stop[g] = Append(@, <<"user", 2>>)] : g \in DOMAIN d.stop}
                            ELSE {}

\* Codex records the user's approval of a hook at the hook's position.
TrustEdits(d) ==
    {[d EXCEPT !.trust = (k :> doc["hooks"].stop[k[1]][k[2]]) @@ @] :
        k \in {k \in (1..3) \X (1..2) : /\ doc["hooks"] # Broken
                                         /\ k[1] \in DOMAIN doc["hooks"].stop
                                         /\ k[2] \in DOMAIN doc["hooks"].stop[k[1]]
                                         /\ doc["hooks"].stop[k[1]][k[2]] \in UserHooks}}

UserEdit ==
    /\ plan.edits > 0
    /\ plan' = [plan EXCEPT !.edits = @ - 1]
    /\ \/ /\ doc["hooks"] # Broken
          /\ \E d \in HookEdits(doc["hooks"]) : doc' = [doc EXCEPT !["hooks"] = d]
          /\ UNCHANGED own
       \/ /\ doc["config"] # Broken
          /\ \E d \in (IF plan.host = "codex" THEN TrustEdits(doc["config"]) ELSE {})
                       \cup {[doc["config"] EXCEPT !.other = {"key"}]} :
                 doc' = [doc EXCEPT !["config"] = d]
          /\ UNCHANGED own
       \/ plan.host = "grok" /\ own' = [own EXCEPT !["skill"] = Blank] /\ UNCHANGED doc
    /\ cmd' = [q \in Procs |-> [cmd[q] EXCEPT !.alone = FALSE]]

Fresh == [mcp |-> None, stop |-> <<>>, trust |-> <<>>, other |-> {}]

Init ==
    /\ plan \in Plans
    /\ doc \in [{"config", "hooks"} -> {Fresh} \cup IF plan.broken THEN {Broken} ELSE {}]
    /\ own = [f \in {"commands", "runner", "await", "stopjson", "skill"} |-> None]
    /\ cmd = [p \in Procs |-> Idle]

Next ==
    \/ \E p \in Procs : \/ \E kind \in {"install", "uninstall"}, env \in plan.envs : run(p, kind, env)
                        \/ probe_codex_stop_support(p) \/ Build(p) \/ read_toml_table(p)
                        \/ persist_json(p) \/ Kill(p)
                        \/ write_all(p) \/ install_runner_shim(p) \/ install_await_shim(p)
                        \/ install_stop_hook_json(p) \/ install_skill(p)
                        \/ remove_all(p) \/ remove_runner_shim(p) \/ remove_await_shim(p)
                        \/ remove_stop_json(p) \/ remove_skill_dir(p)
    \/ UserEdit

Spec == Init /\ [][Next]_vars

-----------------------------------------------------------------------------
(* Properties. *)

UserSeq(stop) == SelectSeq(FlattenSeq(stop), LAMBDA hook : hook \in UserHooks)

\* Where FAMP's own hooks stand in the array the command read, or in its own.
Taken(c) == Range(collect_removed_trust_keys(c.base)) \cup Range(collect_removed_trust_keys(c.built))

\* What is the user's in a file: the hooks in their order, the approvals of them
\* outside K, the other keys.
UserPart(d, K) ==
    IF d = Broken THEN Broken
    ELSE <<UserSeq(d.stop), {<<k, d.trust[k]>> : k \in {k \in DOMAIN d.trust \ K : d.trust[k] \in UserHooks}},
           d.other>>

\* The file as the command has read it: the Stop array, and the rest for the merge.
AsRead(p) == IF Step(p)[3] = "stop" THEN [cmd[p].held EXCEPT !.stop = cmd[p].base] ELSE cmd[p].held

Moves(p) == plan' = plan /\ cmd'[p] \notin {cmd[p], [cmd[p] EXCEPT !.alone = FALSE]}

\* A step of install or uninstall leaves the user's part of every file as it is,
\* or, where somebody wrote between the command's read and its rename, puts it
\* back to what the command had read, all of it: hooks in their order, approvals
\* and other keys, and a file that does not parse is not touched.  Only the
\* approval of a hook that stands (or stood, when it was given) where FAMP puts
\* or had its own is lost: the trust table goes by position, and
\* seed_codex_hook_trust and remove_nested_table do not look at the hash.
UserKept ==
    [][\A p \in Procs : Running(p) /\ Moves(p) =>
          \A f \in DOMAIN doc :
             LET part(d) == UserPart(d, Taken(cmd[p]))
             IN  \/ part(doc'[f]) = part(doc[f])
                 \/ /\ Step(p)[1] = "merge" /\ Step(p)[2] = f /\ cmd[p].held # None
                    /\ part(doc'[f]) = part(AsRead(p))]_vars

FampHooks(stop) == SelectSeq(FlattenSeq(stop), LAMBDA hook : hook \notin UserHooks)

Installed(bin) ==
    LET stop == doc["hooks"].stop
        trust == doc["config"].trust
    IN  /\ doc["config"].mcp = bin
        /\ plan.host = "claude" =>
              /\ \A f \in {"commands", "runner", "await"} : own[f] = bin
              /\ FampHooks(stop) = <<RunnerHook, AwaitHook>>
        /\ plan.host = "codex" =>
              /\ FampHooks(stop) = <<CodexStop(bin)>>
              /\ \E g \in DOMAIN stop : /\ stop[g] = <<CodexStop(bin)>>
                                        /\ {k \in DOMAIN trust : trust[k] = CodexStop(bin)} = {<<g, 1>>}
        /\ plan.host = "grok" => \A f \in {"await", "stopjson", "skill"} : own[f] = bin

\* An install that ran to its end undisturbed leaves the whole integration in
\* place for its binary, each hook once and (Codex) trusted where it stands,
\* whatever earlier commands, other binaries, kills and user edits had left.
InstallCompletes ==
    \A p \in Procs : cmd[p].did = "install" /\ cmd[p].alone => Installed(cmd[p].bin)

\* Every group that holds a hook of FAMP's holds one of the user's too.
AllShared(stop) ==
    \A g \in DOMAIN stop : FampHooks(<<stop[g]>>) # <<>> => UserSeq(<<stop[g]>>) # <<>>

\* An uninstall that ran to its end undisturbed leaves no MCP entry, no Stop
\* hook and no file of FAMP's (a skill the user rewrote, or a torn one, stays),
\* and no trust for the binary it found installed.  Of Claude Code's Stop hooks
\* all go or none: none when the user has put a hook of their own into every
\* group FAMP's stand in, as the array then keeps its length and
\* surgical_remove_stop_entry takes that for "no famp entry found".
UninstallClean ==
    \A p \in Procs : cmd[p].did = "uninstall" /\ cmd[p].alone =>
        /\ doc["config"].mcp = None
        /\ \A f \in DOMAIN own : own[f] \in Bins => FALSE
        /\ LET stop == doc["hooks"].stop
           IN  FampHooks(stop) = <<>> \/ (plan.host = "claude" /\ AllShared(stop))
        /\ \A k \in DOMAIN doc["config"].trust : doc["config"].trust[k] # CodexStop(cmd[p].bin)

\* A command that ran to its end undisturbed did all it is there to do.
CommandCompletes == InstallCompletes /\ UninstallClean

=============================================================================
