----------------------------- MODULE TokenRoster -----------------------------
(***************************************************************************)
(* pumpfun::tokens and the order main uses it in: every token without a    *)
(* mint key draws one from keys/tokens.jsonl, main picks a token, uploads  *)
(* its metadata, claims it in cache/tokens.json and goes live.  Each       *)
(* write_atomic is one step, its rename: nobody reads the temporary file.  *)
(* The program may crash between any two steps and is rerun.               *)
(***************************************************************************)
EXTENDS Naturals, Sequences, FiniteSets

CONSTANTS
    TokenKeys,    \* the lines keys/tokens.jsonl starts with
    Empty,        \* the privatekey of a token that has none yet
    MaxTokens,    \* bound: entries of cache/tokens.json
    MaxRuns,      \* bound: times the program is started
    MaxFaults     \* bound: crashes and errors

ASSUME KeysAssumption == Empty \notin TokenKeys
ASSUME LimitsAssumption == MaxTokens \in Nat /\ MaxRuns \in Nat /\ MaxFaults \in Nat

TokenSpec == [privatekey : TokenKeys \cup {Empty}, is_used : BOOLEAN]
Unkeyed == [privatekey |-> Empty, is_used |-> FALSE]

VARIABLES
    roster,       \* cache/tokens.json
    pool,         \* keys/tokens.jsonl
    launches,     \* launch transactions submitted per mint key, by ordinary runs
    minted,       \* mint keys whose launch was submitted by any run
    runs, faults,
    pc, token_debug, tokens, remaining, idx

files == <<roster, pool>>
history == <<launches, minted>>
limits == <<runs, faults>>
process == <<pc, token_debug, tokens, remaining, idx>>
vars == <<files, history, limits, process>>

Init ==
    /\ roster \in {[i \in 1 .. n |-> Unkeyed] : n \in 0 .. MaxTokens}
    /\ pool = TokenKeys
    /\ launches = [k \in TokenKeys |-> 0] /\ minted = {}
    /\ runs = 0 /\ faults = 0
    /\ pc = "down" /\ token_debug = FALSE /\ tokens = <<>> /\ remaining = {} /\ idx = 0

Halt == pc' = "down" /\ token_debug' = FALSE /\ tokens' = <<>> /\ remaining' = {} /\ idx' = 0
Bail == Halt /\ UNCHANGED <<files, history, limits>>

Start ==
    /\ pc = "down" /\ runs < MaxRuns
    /\ runs' = runs + 1
    /\ token_debug' \in BOOLEAN
    /\ pc' = "load"
    /\ UNCHANGED <<files, history, faults, tokens, remaining, idx>>

\* A crash anywhere, or an error of keys::prepare, metadata::upload or what main
\* bootstraps after the claim.
Crash ==
    /\ pc # "down" /\ faults < MaxFaults
    /\ faults' = faults + 1
    /\ Halt
    /\ UNCHANGED <<files, history, runs>>

\* Between two runs the operator appends a token to the roster.
AddToken ==
    /\ pc = "down" /\ Len(roster) < MaxTokens
    /\ roster' = Append(roster, Unkeyed)
    /\ UNCHANGED <<pool, history, limits, process>>
-----------------------------------------------------------------------------
needed == {i \in DOMAIN roster : roster[i].privatekey = Empty}

AlreadyHydrated ==
    /\ pc = "load" /\ needed = {}
    /\ tokens' = roster
    /\ pc' = "pick"
    /\ UNCHANGED <<files, history, limits, token_debug, remaining, idx>>

\* Mutant: one key too many is asked for.
NotEnoughKeys_Inclusive ==
    /\ pc = "load" /\ needed # {} /\ Cardinality(pool) <= Cardinality(needed)
    /\ Bail

NotEnoughKeys ==
    /\ pc = "load" /\ Cardinality(pool) < Cardinality(needed)
    /\ Bail

\* Each needy token takes a line of its own.  Which one is immaterial here: the
\* code deals them in file order.
Hydrate ==
    /\ pc = "load" /\ needed # {} /\ Cardinality(pool) >= Cardinality(needed)
    /\ \E line \in [needed -> pool] :
         /\ \A i, j \in needed : line[i] = line[j] => i = j
         /\ tokens' = [i \in DOMAIN roster |->
                         IF i \in needed THEN [roster[i] EXCEPT !.privatekey = line[i]]
                                         ELSE roster[i]]
         /\ remaining' = pool \ {line[i] : i \in needed}
    /\ pc' = "shrink"
    /\ UNCHANGED <<files, history, limits, token_debug, idx>>

\* Mutant: tokens.json is written first and the pool is left as it was.
ShrinkPool_RosterFirst ==
    /\ pc = "shrink"
    /\ roster' = tokens
    /\ pc' = "save"
    /\ UNCHANGED <<pool, history, limits, token_debug, tokens, remaining, idx>>

\* Order matters: the source pool shrinks first.
ShrinkPool ==
    /\ pc = "shrink"
    /\ pool' = remaining
    /\ pc' = "save"
    /\ UNCHANGED <<roster, history, limits, token_debug, tokens, remaining, idx>>

SaveRoster ==
    /\ pc = "save"
    /\ roster' = tokens
    /\ pc' = "pick"
    /\ UNCHANGED <<pool, history, limits, token_debug, tokens, remaining, idx>>
-----------------------------------------------------------------------------
\* Mutant: the sentinel's slot is not excluded.
candidate_WithSentinel(i) ==
    /\ i <= Len(tokens) /\ ~tokens[i].is_used
    /\ \A j \in 1 .. i - 1 : tokens[j].is_used

\* The first unused entry, the debug sentinel at the end excluded.
candidate(i) ==
    /\ i < Len(tokens) /\ ~tokens[i].is_used
    /\ \A j \in 1 .. i - 1 : tokens[j].is_used

\* Mutant: the index is off by one.
Pick_PastIt ==
    /\ pc = "pick"
    /\ \E i \in DOMAIN tokens :
         /\ IF token_debug THEN i = Len(tokens) ELSE candidate(i)
         /\ idx' = i + 1
    /\ pc' = "upload"
    /\ UNCHANGED <<files, history, limits, token_debug, tokens, remaining>>

Pick ==
    /\ pc = "pick"
    /\ \E i \in DOMAIN tokens :
         /\ IF token_debug THEN i = Len(tokens) ELSE candidate(i)
         /\ idx' = i
    /\ pc' = "upload"
    /\ UNCHANGED <<files, history, limits, token_debug, tokens, remaining>>

NoTokenLeft ==
    /\ pc = "pick" /\ \A i \in DOMAIN tokens : ~token_debug /\ ~candidate(i)
    /\ Bail

\* Mutant: a run goes live without claiming its token.
Uploaded_NoClaim ==
    /\ pc = "upload"
    /\ pc' = "live"
    /\ UNCHANGED <<files, history, limits, token_debug, tokens, remaining, idx>>

\* keys::prepare and metadata::upload succeed; in debug mode nothing is claimed.
Uploaded ==
    /\ pc = "upload"
    /\ pc' = IF token_debug THEN "live" ELSE "claim"
    /\ UNCHANGED <<files, history, limits, token_debug, tokens, remaining, idx>>

MarkUsed ==
    /\ pc = "claim"
    /\ tokens' = [tokens EXCEPT ![idx].is_used = TRUE]
    /\ roster' = tokens'
    /\ pc' = "live"
    /\ UNCHANGED <<pool, history, limits, token_debug, remaining, idx>>

\* The launch transaction, signed with the token's mint key, goes out once.
FireLaunch ==
    /\ pc = "live"
    /\ LET k == tokens[idx].privatekey IN
         /\ launches' = IF token_debug THEN launches ELSE [launches EXCEPT ![k] = @ + 1]
         /\ minted' = minted \cup {k}
    /\ pc' = "launched"
    /\ UNCHANGED <<files, limits, token_debug, tokens, remaining, idx>>

Stop == pc \in {"live", "launched"} /\ Bail
-----------------------------------------------------------------------------
LoadAndHydrate == AlreadyHydrated \/ NotEnoughKeys \/ Hydrate \/ ShrinkPool \/ SaveRoster
Claim == Pick \/ NoTokenLeft \/ Uploaded \/ MarkUsed

Next == Start \/ Crash \/ AddToken \/ LoadAndHydrate \/ Claim \/ FireLaunch \/ Stop

Spec == Init /\ [][Next]_vars

\* The program does not stand still between its steps, and is rerun.
FairSpec == Spec /\ WF_vars(LoadAndHydrate \/ Claim) /\ WF_vars(Start)
-----------------------------------------------------------------------------
KeysOf(r) == {r[i].privatekey : i \in DOMAIN r} \ {Empty}
Distinct(r) ==
    \A i, j \in DOMAIN r :
        r[i].privatekey \in TokenKeys /\ r[i].privatekey = r[j].privatekey => i = j

TypeOK ==
    /\ roster \in Seq(TokenSpec) /\ Len(roster) <= MaxTokens
    /\ tokens \in Seq(TokenSpec) /\ Len(tokens) <= MaxTokens
    /\ pool \subseteq TokenKeys /\ remaining \subseteq TokenKeys
    /\ launches \in [TokenKeys -> Nat] /\ minted \subseteq TokenKeys
    /\ runs \in 0 .. MaxRuns /\ faults \in 0 .. MaxFaults
    /\ pc \in {"down", "load", "shrink", "save", "pick", "upload", "claim", "live", "launched"}
    /\ token_debug \in BOOLEAN /\ idx \in 0 .. MaxTokens

\* The same key can never be assigned twice (tokens.rs:4): no two tokens of the
\* roster share one, and none is still in the pool another token draws from,
\* whichever of the two files a crash left behind.
NeverAssignedTwice == Distinct(roster) /\ \A k \in KeysOf(roster) : k \notin pool

\* No mint key is launched twice by ordinary runs, and a key that was launched
\* belongs to a token marked used on disk, so no later run picks it again.
LaunchedOnce ==
    \A k \in TokenKeys : launches[k] > 0 =>
        /\ launches[k] = 1
        /\ \E i \in DOMAIN roster : roster[i].privatekey = k /\ roster[i].is_used

\* The debug sentinel is never burned in a real run (tokens.rs:131): a claim never
\* falls on the last entry of the roster, and no claim or key is ever taken back.
SentinelKept ==
    [][\A i \in DOMAIN roster :
         /\ roster'[i].is_used # roster[i].is_used => ~roster[i].is_used /\ i < Len(roster)
         /\ roster[i].privatekey # Empty => roster'[i].privatekey = roster[i].privatekey]_vars

\* A crash costs at most the keys of one draw: with that many to spare, rerunning
\* the program gets it live, or every ordinary token is used.
Recovers ==
    (/\ pc = "down" /\ runs + (MaxFaults - faults) < MaxRuns
     /\ Cardinality(pool) >= (MaxTokens - Cardinality(KeysOf(roster))) * ((MaxFaults - faults) + 1)
     /\ \E i \in DOMAIN roster : i < Len(roster) /\ ~roster[i].is_used)
        ~> pc = "live"

\* The abstract ledger: a key is drawn while only the running process holds it.
status ==
    [k \in TokenKeys |->
        IF k \in pool THEN "free"
        ELSE IF k \in KeysOf(roster) THEN "assigned"
        ELSE IF pc = "save" /\ k \in KeysOf(tokens) THEN "drawn"
        ELSE "lost"]

Ledger == INSTANCE KeyLedger WITH status <- status, spent <- {k \in TokenKeys : launches[k] > 0}

\* The two files implement the ledger: every key is drawn once, then assigned or
\* lost for good, and spent at most once.
ImplementsLedger == Ledger!Spec
=============================================================================
