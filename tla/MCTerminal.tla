------------------------------- MODULE MCTerminal -------------------------------
(* Instances for TLC of the three parts of a terminal session that share   *)
(* nothing: its output, the files of its container and its language        *)
(* server.  In each behaviour one of them moves, so that one run checks    *)
(* all three and its states are the sum of theirs.  The files move twice:  *)
(* with everything that acts on them and few operations, and with nothing  *)
(* but the shell and two terminals that stay open, where it takes more     *)
(* operations for the watchers to meet. *)
EXTENDS TerminalSession

CONSTANTS MaxRequests, MaxSent,
    OpsBeside   \* bound: operations on the files when all kinds are possible

VARIABLES part,
    status, socket, asked, waiting, answered, up, handler, queue, input, sent, raw,
    frames, down, chars, parsed

Lsp == INSTANCE LanguageServer

lspVars == <<status, socket, asked, waiting, answered, up, handler, queue, input, sent, raw,
             frames, down, chars, parsed>>
allVars == <<part, vars, filesVars, lspVars>>

MCInit ==
    /\ part \in {"output", "files", "two terminals", "language server"}
    /\ Init /\ Files!Init /\ Lsp!Init
    /\ part = "two terminals" => {p \in Paths : Files!OnDisk(p)} = {CHOOSE p \in Paths : TRUE}
    /\ part \in {"output", "language server"} => \A p \in Paths : ~Files!OnDisk(p)

OutputNext == part = "output" /\ Next /\ UNCHANGED <<part, filesVars, lspVars>>
FilesNext == part = "files" /\ Files!Next /\ ops' <= OpsBeside /\ UNCHANGED <<part, vars, lspVars>>
(* The terminals are opened and stay open; the shell acts when they are.   *)
TwoTerminalsNext ==
    /\ part = "two terminals" /\ Files!Next /\ UNCHANGED <<part, vars, lspVars>>
    /\ <<live, cool, syncs>>' = <<live, cool, syncs>>
    /\ \A w \in Terminals : terminal[w] => terminal'[w] /\ ~scan'[w].misread
    /\ ops' # ops => terminal' # terminal \/ \A w \in Terminals : terminal[w]
LspNext == part = "language server" /\ Lsp!Next /\ UNCHANGED <<part, vars, filesVars>>

MCNext == OutputNext \/ FilesNext \/ TwoTerminalsNext \/ LspNext

Watches(w) ==
    \/ part = "output" /\ TimerFires /\ UNCHANGED <<part, filesVars, lspVars>>
    \/ part \in {"files", "two terminals"} /\ (Files!List(w, FALSE) \/ Files!Scan(w)) /\ UNCHANGED <<part, vars, lspVars>>
Transports ==
    /\ part = "output" /\ UNCHANGED <<part, filesVars, lspVars>>
    /\ (\E n \in 1..Len(wire) : Drain(n)) \/ (wire # <<>> /\ ConnectionLost)

(* The fairness of each module, for the part that moves.  A watcher never  *)
(* can list and go on with a scan at once, and a step of its scan takes it  *)
(* to the next, so its two conditions are one. *)
MCFairness == (\A w \in Terminals : WF_allVars(Watches(w))) /\ WF_allVars(Transports)

MCSpec == MCInit /\ [][MCNext]_allVars /\ MCFairness

(* The variables of the three modules keep their types. *)
TypesOK == TypeOK /\ Files!TypeOK /\ Lsp!TypeOK

(* See the modules. *)
StreamsAreFaithful == Lsp!StreamsAreFaithful
=============================================================================
