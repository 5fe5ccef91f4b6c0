------------------------------- MODULE BlockQuery -------------------------------
(* One question to cheburcheck: the answer to the check, the stream of scanner    *)
(* replies that may follow it, and the verdict made of both                       *)
(* (src/src/lib/block-check/client.ts, probe-stream.ts and verdict.ts).           *)
EXTENDS Naturals, FiniteSets, Sequences, SequencesExt

CONSTANTS
    Null,
    ProbeIds,  \* names of scanners
    Replies,   \* what a scanner may report
    MaxReplies \* the longest stream

VERDICT_PRIORITY ==
    <<"tspu_block", "sni_block", "dns_spoofing", "whitelist", "cdn_block", "ok", "uncertain">>

Kinds == {VERDICT_PRIORITY[i] : i \in DOMAIN VERDICT_PRIORITY}
BlockKinds == {"tspu_block", "sni_block", "dns_spoofing", "cdn_block"}
OpenKinds == {"ok", "whitelist"}

(* A reply names its scanner or does not, lists verdicts, some of them unknown to  *)
(* this program, and says whether the CDN is open and whether hosts were tried.    *)
Reply == [probeId : ProbeIds \cup {Null}, verdicts : SUBSET (Kinds \cup {"other"}),
          cdnUnblocked : BOOLEAN, hostsTried : BOOLEAN]

ASSUME QueryAssumption ==
    /\ Null \notin Nat \cup ProbeIds \cup Kinds \cup {"unrestricted", "blocked"}
    /\ Replies \subseteq Reply
    /\ MaxReplies \in Nat

--------------------------------------------------------------------------------
(* The answer to the check: its status, 0 when the request throws, and the body,   *)
(* Null when it is too long or not what it should be.                              *)
Body == [registryBlocked : BOOLEAN, isStaticCdn : BOOLEAN, id : {Null, "accepted", "rejected"}]

ASSUME BodyAssumption == Null \notin Body

Check == [code : {0, 404, 429, 500}, body : {Null}] \cup [code : {200}, body : Body \cup {Null}]

(* The stream: the replies parsed before the first "done" or before it broke off,  *)
(* whether there was a "done", and the number of replies that it reports.          *)
Counts == {Null} \cup 0..(MaxReplies + 1)
Stream ==
    [code : {0, 429, 500}, votes : {<<>>}, done : {FALSE}, responseCount : {Null}]
      \cup [code : {200}, votes : SeqOf(Replies, MaxReplies), done : {FALSE}, responseCount : {Null}]
      \cup [code : {200}, votes : SeqOf(Replies, MaxReplies), done : {TRUE}, responseCount : Counts]

NeedsProbe(check) == check.code = 200 /\ check.body # Null /\ check.body.id = "accepted"

--------------------------------------------------------------------------------
(* verdict.ts *)
Remapped(verdict, vote, isStaticCdn) ==
    CASE verdict = "cdn_block" /\ ~isStaticCdn -> "ok"
      [] verdict = "ok" /\ isStaticCdn /\ ~vote.cdnUnblocked /\ vote.hostsTried -> "cdn_block"
      [] OTHER -> verdict

displayVerdicts(vote, isStaticCdn) ==
    {Remapped(verdict, vote, isStaticCdn) : verdict \in vote.verdicts \cap Kinds}

chosenDisplayVerdict(vote, isStaticCdn) ==
    LET IsShown(kind) == kind \in displayVerdicts(vote, isStaticCdn)
        shown == SelectSeq(VERDICT_PRIORITY, IsShown)
    IN  IF shown = <<>> THEN Null ELSE Head(shown)

VotesFor(kind, votes, isStaticCdn) ==
    Cardinality({i \in DOMAIN votes : chosenDisplayVerdict(votes[i], isStaticCdn) = kind})

selectProbeVerdict(votes, isStaticCdn) ==
    LET Better(best, kind) ==
            IF VotesFor(kind, votes, isStaticCdn) > best.votes
            THEN [kind |-> kind, votes |-> VotesFor(kind, votes, isStaticCdn)]
            ELSE best
        winner == FoldLeft(Better, [kind |-> Null, votes |-> 0], VERDICT_PRIORITY).kind
    IN  IF winner = "uncertain" THEN Null ELSE winner

resolveBadgeStatus(body, votes) ==
    LET winner == selectProbeVerdict(votes, body.isStaticCdn)
    IN  IF winner \in OpenKinds THEN "unrestricted"
        ELSE IF winner \in BlockKinds \/ body.registryBlocked THEN "blocked"
        ELSE "unknown"

reportedRepliesExceedParsed(parsedReplies, responseCount) ==
    responseCount # Null /\ responseCount > parsedReplies

--------------------------------------------------------------------------------
(* Mutant: a scanner that answers twice has two votes.                             *)
KeepAll(votes) == votes

(* probe-stream.ts: the last reply of a scanner takes the place of its first one. *)
Put(kept, vote) ==
    LET same == {i \in DOMAIN kept : vote.probeId # Null /\ kept[i].probeId = vote.probeId}
    IN  IF same = {} THEN Append(kept, vote)
        ELSE [i \in DOMAIN kept |-> IF i \in same THEN vote ELSE kept[i]]

dedupeProbeVotes(votes) ==
    FoldLeft(Put, <<>>, votes)

--------------------------------------------------------------------------------
(* client.ts: what is made of the answers.  A kept verdict goes with the status    *)
(* that came last; that of the stream replaces that of the check.                  *)
Keep(code) == [status |-> Null, code |-> code]

WithoutProbe(check) ==
    IF check.code # 200 \/ check.body = Null \/ check.body.id = "rejected" THEN Keep(check.code)
    ELSE IF resolveBadgeStatus(check.body, <<>>) = "unknown" THEN Keep(200)
    ELSE [status |-> resolveBadgeStatus(check.body, <<>>), code |-> 200]

WithProbe(body, stream) ==
    LET code == IF stream.code = 0 THEN 200 ELSE stream.code
        votes == IF stream.done THEN dedupeProbeVotes(stream.votes) ELSE stream.votes
    IN  IF ~stream.done /\ (votes # <<>> \/ ~body.registryBlocked) THEN Keep(code)
        ELSE IF reportedRepliesExceedParsed(Len(votes), stream.responseCount) THEN Keep(code)
        ELSE IF resolveBadgeStatus(body, votes) = "unknown" THEN Keep(code)
        ELSE [status |-> resolveBadgeStatus(body, votes), code |-> code]

queryCheburcheck(check, stream) ==
    IF NeedsProbe(check) THEN WithProbe(check.body, stream) ELSE WithoutProbe(check)

--------------------------------------------------------------------------------
(* Reference: replies that no later reply of the same scanner replaces, and the    *)
(* kinds that more of them name than any kind before, and no fewer than any after. *)
LastReplies(votes) ==
    {i \in DOMAIN votes : votes[i].probeId = Null
                          \/ \A j \in DOMAIN votes : j > i => votes[j].probeId # votes[i].probeId}

Naming(kind, votes, isStaticCdn) ==
    Cardinality({i \in LastReplies(votes) : chosenDisplayVerdict(votes[i], isStaticCdn) = kind})

MostNamed(votes, isStaticCdn) ==
    {VERDICT_PRIORITY[i] : i \in {i \in DOMAIN VERDICT_PRIORITY :
        LET count == [j \in DOMAIN VERDICT_PRIORITY |-> Naming(VERDICT_PRIORITY[j], votes, isStaticCdn)]
        IN  \A j \in DOMAIN VERDICT_PRIORITY :
                /\ count[i] > 0 /\ count[i] >= count[j]
                /\ j < i => count[i] > count[j]}}

(* Open exactly when a probe that ended, and of which no reported reply is missing, *)
(* mostly named an open kind.  Blocked exactly when such a probe mostly named a     *)
(* blocking kind, or when the host is in the register and the scanners leave that   *)
(* standing: they were silent, or ended without a usable majority.                  *)
QueryFollowsReference ==
    \A body \in [registryBlocked : BOOLEAN, isStaticCdn : BOOLEAN, id : {"accepted"}] :
        \A stream \in Stream :
            LET status == queryCheburcheck([code |-> 200, body |-> body], stream).status
                isWhole == stream.done /\ (stream.responseCount # Null
                                => stream.responseCount <= Cardinality(LastReplies(stream.votes)))
                most == MostNamed(stream.votes, body.isStaticCdn)
            IN  /\ Cardinality(most) <= 1
                /\ (status = "unrestricted") <=> (isWhole /\ most \cap OpenKinds # {})
                /\ (status = "blocked") <=>
                      \/ isWhole /\ most \cap BlockKinds # {}
                      \/ body.registryBlocked /\ isWhole /\ most \subseteq {"uncertain"}
                      \/ body.registryBlocked /\ ~stream.done /\ stream.votes = <<>>
================================================================================
