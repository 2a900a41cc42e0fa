------------------------------- MODULE MCEntry -------------------------------
(* What stands between a user and a session, and does not interact: the    *)
(* logins, the keys, the loop that gives a user an access, the names on    *)
(* the command line and the texts typed at a prompt.  A behaviour is one   *)
(* of them, with the others at rest.                                       *)
EXTENDS Login, FiniteSets

CONSTANTS
    Proc, Server, MaxStart, MaxCommand,  \* of Keys
    Listed,                              \* the clients of UserLoop
    Letter, MaxName, MaxOption,          \* of Options
    Typed, MaxLine, Least                \* of Text

VARIABLES
    part,                                \* which of them runs
    starts, commands, file, phase, cert, store, saving, peer, knows, trusts,
    goal, torn, accepted, pasted,
    order, names, accesses,
    options, word, steps,
    line, pos, tty, answer, asking, kept

keys == <<starts, commands, file, phase, cert, store, saving, peer, knows, trusts,
          goal, torn, accepted, pasted>>
loop == <<order, names, accesses>>
command == <<options, word, steps>>
prompt == <<line, pos, tty, answer, asking, kept>>

K == INSTANCE Keys WITH known <- knows
L == INSTANCE UserLoop WITH Client <- Listed, Name <- User, name <- names, access <- accesses
O == INSTANCE Options
T == INSTANCE Text

ASSUME EntryAssumption ==
    /\ K!KeysAssumption
    /\ IsFiniteSet(Listed)
    /\ MaxName \in Nat
    /\ Typed \subseteq Seq(0 .. 255) \ {<<>>} /\ Least \in Nat

MCAcl == [u \in User |-> IF u = "owner" THEN 2 ELSE 1]
MCTyped == { <<97>>, <<195, 169>>, <<226, 130, 172>>, <<240, 159, 152, 128>>,
             <<8>>, <<21>>, <<3>>, <<13>>, <<233>>, <<233, 97, 98>> }

(* Where nobody logs in: every client has gone.                            *)
Gone ==
    /\ ticket = {} /\ known = {}
    /\ doing = [c \in Client |-> "gone"] /\ name = [c \in Client |-> "closed"]
    /\ stage = [c \in Client |-> 0] /\ tries = [c \in Client |-> 0]
    /\ up = [c \in Client |-> <<>>] /\ down = [c \in Client |-> <<>>]
    /\ level = [c \in Client |-> 0] /\ access = [c \in Client |-> 0]
    /\ mask = [c \in Client |-> {}] /\ toTell = [c \in Client |-> FALSE]
    /\ handle = [c \in Client |-> FALSE] /\ vouched = [c \in Client |-> NoOne]
    /\ wait = 0
    /\ ids = [real |-> "own", eff |-> "own", saved |-> "service", restore |-> "own"]

NoList == order = <<>> /\ names = <<>> /\ accesses = <<>>
NoOption == options = <<>> /\ word = <<>> /\ steps = <<>>
NoText == line = <<>> /\ pos = 0 /\ tty = FALSE /\ answer = <<>> /\ asking = FALSE /\ kept = <<>>

MCInit ==
    /\ part \in {"login", "keys", "loop", "options", "text"}
    /\ IF part = "login" THEN Init ELSE Gone
    /\ K!Init
    /\ IF part = "loop" THEN L!Init ELSE NoList
    /\ IF part = "options" THEN O!Init ELSE NoOption
    /\ IF part = "text" THEN T!Init ELSE NoText

LoginNext == part = "login" /\ Next /\ UNCHANGED <<keys, loop, command, prompt>>
KeysNext == part = "keys" /\ K!Next /\ UNCHANGED <<vars, loop, command, prompt>>
LoopNext == part = "loop" /\ L!Next /\ UNCHANGED <<vars, keys, command, prompt>>
OptionsNext == part = "options" /\ O!Next /\ UNCHANGED <<vars, keys, loop, prompt>>
TextNext == part = "text" /\ T!Next /\ UNCHANGED <<vars, keys, loop, command>>

MCNext == (LoginNext \/ KeysNext \/ LoopNext \/ OptionsNext \/ TextNext) /\ UNCHANGED part

MCSpec ==
    MCInit /\ [][MCNext]_<<part, vars, keys, loop, command, prompt>> /\ Fairness

(* The properties of the parts, under their names there.                   *)
KnownWasAccepted == part = "keys" => K!KnownWasAccepted
FileWhole == part = "keys" => K!FileWhole
UserLoopAgrees == part = "loop" => L!UserLoopAgrees
OptionFound == part = "options" => O!OptionFound
LineEdited == part = "text" => T!LineEdited
CodesAgree == part = "text" => T!CodesAgree

(* What the pure helpers compute is what their references say: the lengths *)
(* of characters, the lines of a file, the key symbols, and the distances  *)
(* of names.                                                               *)
TablesAgree ==
    /\ part = "text" => T!TablesAgree
    /\ part = "options" => O!DistanceCounts
=============================================================================
