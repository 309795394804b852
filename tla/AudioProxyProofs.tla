-------------------------- MODULE AudioProxyProofs --------------------------
(***************************************************************************)
(* What the audio links and the proxy promise, for any number of links,    *)
(* fetches and restarts, and any limit.                                    *)
(***************************************************************************)
EXTENDS AudioProxy, TLAPS

USE LimitAssumption, NoLinkAssumption

\* The secret of a start, by how it was started.
SecretOf(n) == IF n \in generated THEN GenerateSecret(n) ELSE Configured

\* The server runs with the secret of its start, and a link is signed with the key
\* of the start that posted it.
KeysOK ==
  /\ secret = SecretOf(start)
  /\ \A l \in Links : postedIn[l] # 0 => mac[l] = audioMACKey(SecretOf(postedIn[l]))

\* Why the link of a fetch is dead.
Cause(f) ==
  \/ link[f] \in expired
  \/ /\ postedIn[link[f]] # askedIn[f]
     /\ {postedIn[link[f]], askedIn[f]} \intersect generated # {}

\* A refused fetch had a link that was posted before, and a cause; a Write is under
\* way only below the limit.
FetchOK(f) ==
  /\ at[f] = "forbidden" =>
       link[f] \in Links /\ postedIn[link[f]] # 0 /\ askedIn[f] # 0 /\ Cause(f)
  /\ at[f] = "writing" => sent[f] < Limit

AudioInv ==
  /\ AudioTypeOK
  /\ KeysOK
  /\ \A f \in Fetches : FetchOK(f)

LEMMA InitialAudio == AudioInit => AudioInv
<1> SUFFICES ASSUME AudioInit PROVE AudioInv
  OBVIOUS
<1> USE DEF AudioInit
<1>1. AudioTypeOK
  BY DEF AudioTypeOK, Configured, GenerateSecret
<1>2. KeysOK
  BY DEF KeysOK, SecretOf
<1>3. \A f \in Fetches : FetchOK(f)
  BY DEF FetchOK
<1> QED
  BY <1>1, <1>2, <1>3 DEF AudioInv

LEMMA LinkStepKeeps ==
  ASSUME AudioInv, NEW l \in Links, LinkStep(l)
  PROVE  AudioInv'
<1> USE DEF server, fetch
<1>1. CASE PostLink(l)
  <2> USE <1>1 DEF PostLink
  <2>0. /\ start \in Nat \ {0} /\ secret \in 0..start
        /\ \A k \in Links : k # l => mac'[k] = mac[k] /\ postedIn'[k] = postedIn[k]
        /\ mac'[l] = audioMACKey(secret) /\ postedIn'[l] = start
    BY DEF AudioInv, AudioTypeOK
  <2>1. AudioTypeOK'
    <3>1. audioMACKey(secret) \in {audioMACKey(s) : s \in 0..start}
      BY <2>0
    <3>2. mac' \in [Links -> {<<>>} \union {audioMACKey(s) : s \in 0..start}]
      BY <3>1 DEF AudioInv, AudioTypeOK
    <3>3. postedIn' \in [Links -> 0..start]
      BY DEF AudioInv, AudioTypeOK
    <3> QED
      BY <3>2, <3>3 DEF AudioInv, AudioTypeOK, audioMACKey
  <2>2. KeysOK'
    BY <2>0 DEF AudioInv, KeysOK, SecretOf, audioMACKey
  <2>3. \A f \in Fetches : FetchOK(f)'
    BY <2>0 DEF AudioInv, FetchOK, Cause
  <2> QED
    BY <2>1, <2>2, <2>3 DEF AudioInv
<1>2. CASE LinkExpires(l)
  <2> USE <1>2 DEF LinkExpires
  <2>1. AudioTypeOK'
    BY DEF AudioInv, AudioTypeOK, audioMACKey
  <2>2. KeysOK'
    BY DEF AudioInv, KeysOK, SecretOf, audioMACKey
  <2>3. \A f \in Fetches : FetchOK(f)'
    BY DEF AudioInv, FetchOK, Cause
  <2> QED
    BY <2>1, <2>2, <2>3 DEF AudioInv
<1> QED
  BY <1>1, <1>2 DEF LinkStep

\* A restart says nothing of the starts before it: their secrets stay what they
\* were.
LEMMA RestartKeeps == AudioInv /\ Restart => AudioInv'
<1> SUFFICES ASSUME AudioInv, Restart PROVE AudioInv'
  OBVIOUS
<1> USE DEF Restart, fetch
<1>0. /\ start \in Nat \ {0} /\ start' = start + 1
      /\ generated \subseteq 1..start /\ start' \notin generated
      /\ generated' \in {generated, generated \union {start'}}
  BY DEF AudioInv, AudioTypeOK
<1>1. \A n \in 0..start : (n \in generated') <=> (n \in generated)
  BY <1>0
<1>2. AudioTypeOK'
  <2>1. at' \in [Fetches -> {"idle"} \union InFlight \union Ended]
    BY DEF AudioInv, AudioTypeOK, Ended
  <2>2. \A n \in 0..start : n \in 0..start'
    BY <1>0
  <2>3. mac \in [Links -> {<<>>} \union {audioMACKey(s) : s \in 0..start'}]
    BY <2>2 DEF AudioInv, AudioTypeOK
  <2>4. postedIn \in [Links -> 0..start'] /\ askedIn \in [Fetches -> 0..start']
    BY <2>2 DEF AudioInv, AudioTypeOK
  <2>5. start' \in Nat \ {0} /\ secret' \in 0..start' /\ generated' \subseteq 1..start'
    BY <1>0 DEF Configured, GenerateSecret
  <2> QED
    BY <2>1, <2>3, <2>4, <2>5 DEF AudioInv, AudioTypeOK, audioMACKey
<1>3. KeysOK'
  <2>1. secret' = SecretOf(start)'
    BY <1>0 DEF SecretOf
  <2>2. ASSUME NEW l \in Links, postedIn[l] # 0
        PROVE  mac[l] = audioMACKey(SecretOf(postedIn[l]))'
    <3>1. postedIn[l] \in 0..start
      BY DEF AudioInv, AudioTypeOK
    <3> QED
      BY <1>1, <2>2, <3>1 DEF AudioInv, KeysOK, SecretOf, audioMACKey
  <2> QED
    BY <2>1, <2>2 DEF KeysOK
<1>4. ASSUME NEW f \in Fetches PROVE FetchOK(f)'
  <2>1. at'[f] \in {at[f], "broken"}
    BY DEF AudioInv, AudioTypeOK
  <2>2. generated \subseteq generated' /\ FetchOK(f)
    BY <1>0 DEF AudioInv
  <2> QED
    BY <2>1, <2>2 DEF FetchOK, Cause
<1> QED
  BY <1>2, <1>3, <1>4 DEF AudioInv

\* A step of one fetch that ends elsewhere than in a refusal leaves the causes alone.
LEMMA OtherStep ==
  ASSUME AudioInv, NEW f \in Fetches, UNCHANGED <<server, mac, postedIn, expired, link, askedIn>>,
         AudioTypeOK', at'[f] # "forbidden", at'[f] = "writing" => sent'[f] < Limit,
         \A g \in Fetches : g # f => at'[g] = at[g] /\ sent'[g] = sent[g]
  PROVE  AudioInv'
<1>1. \A g \in Fetches : FetchOK(g)'
  BY DEF AudioInv, FetchOK, Cause, server
<1>2. KeysOK'
  BY DEF AudioInv, KeysOK, SecretOf, audioMACKey, server
<1> QED
  BY <1>1, <1>2 DEF AudioInv

\* A fetch that ends, with or without a body.
LEMMA EndStep ==
  ASSUME AudioInv, NEW f \in Fetches, NEW from,
         NEW to \in {"unauthorized", "bad gateway", "done", "cut", "broken"}, Move(f, from, to),
         UNCHANGED <<server, mac, postedIn, expired, fetch>>
  PROVE  AudioInv'
<1>1. /\ at' \in [Fetches -> {"idle"} \union InFlight \union Ended]
      /\ at'[f] = to
      /\ \A g \in Fetches : g # f => at'[g] = at[g]
  <2>1. at \in [Fetches -> {"idle"} \union InFlight \union Ended]
    BY DEF AudioInv, AudioTypeOK
  <2>2. to \in Ended
    BY DEF Ended
  <2>3. at' = [at EXCEPT ![f] = to]
    BY DEF Move
  <2> QED
    BY <2>1, <2>2, <2>3
<1>2. AudioTypeOK'
  BY <1>1 DEF AudioInv, AudioTypeOK, server, fetch, audioMACKey
<1>3. at'[f] # "forbidden" /\ at'[f] # "writing"
  BY <1>1
<1> QED
  BY <1>1, <1>2, <1>3, OtherStep DEF fetch

\* A link that does not verify is too old, or it has another key than the server:
\* then one of the two starts generated its secret, for the others have one.
LEMMA PlayKeeps ==
  ASSUME AudioInv, NEW f \in Fetches, NEW l \in Links, Play(f, l)
  PROVE  AudioInv'
<1> USE DEF Play, Move, server
<1>1. AudioTypeOK'
  <2>1. at' \in [Fetches -> {"idle"} \union InFlight \union Ended]
    BY DEF AudioInv, AudioTypeOK, InFlight, Ended
  <2>2. link' \in [Fetches -> Links \union {NoLink}] /\ askedIn' \in [Fetches -> 0..start]
    BY DEF AudioInv, AudioTypeOK
  <2> QED
    BY <2>1, <2>2 DEF AudioInv, AudioTypeOK, audioMACKey
<1>2. /\ at'[f] = (IF Verifies(l) THEN "asking" ELSE "forbidden")
      /\ link'[f] = l /\ askedIn'[f] = start
      /\ \A g \in Fetches : g # f => at'[g] = at[g] /\ link'[g] = link[g] /\ askedIn'[g] = askedIn[g]
  BY DEF AudioInv, AudioTypeOK
<1>3. KeysOK'
  BY DEF AudioInv, KeysOK, SecretOf, audioMACKey
<1>4. ASSUME ~Verifies(l), l \notin expired
      PROVE  postedIn[l] # start /\ {postedIn[l], start} \intersect generated # {}
  <2>1. mac[l] # audioMACKey(secret)
    BY <1>4 DEF Verifies
  <2>2. mac[l] = audioMACKey(SecretOf(postedIn[l])) /\ secret = SecretOf(start)
    BY DEF AudioInv, KeysOK
  <2>3. SecretOf(postedIn[l]) # SecretOf(start)
    BY <2>1, <2>2
  <2> QED
    BY <2>3 DEF SecretOf
<1>5. FetchOK(f)'
  <2>1. start # 0
    BY DEF AudioInv, AudioTypeOK
  <2> QED
    BY <1>2, <1>4, <2>1 DEF FetchOK, Cause
<1>6. \A g \in Fetches : g # f => FetchOK(g)'
  BY <1>2 DEF AudioInv, FetchOK, Cause
<1> QED
  BY <1>1, <1>3, <1>5, <1>6 DEF AudioInv

LEMMA FetchStepKeeps ==
  ASSUME AudioInv, NEW f \in Fetches, FetchStep(f)
  PROVE  AudioInv'
<1>0. \A from, to : Move(f, from, to) =>
         /\ at[f] = from /\ at'[f] = to
         /\ \A g \in Fetches : g # f => at'[g] = at[g]
         /\ to \in {"idle"} \union InFlight \union Ended =>
              at' \in [Fetches -> {"idle"} \union InFlight \union Ended]
  BY DEF Move, AudioInv, AudioTypeOK
<1>1. CASE Unauthorized(f)
  BY <1>1, EndStep DEF Unauthorized
<1>2. CASE \E l \in Links : Play(f, l)
  BY <1>2, PlayKeeps
<1>3. CASE \E n \in Sizes : UpstreamAnswers(f, n)
  <2>1. PICK n \in Sizes : UpstreamAnswers(f, n)
    BY <1>3
  <2>2. /\ at' \in [Fetches -> {"idle"} \union InFlight \union Ended] /\ at'[f] = "reading"
        /\ \A g \in Fetches : g # f => at'[g] = at[g]
    BY <1>0, <2>1 DEF UpstreamAnswers, InFlight
  <2>3. size' \in [Fetches -> {0} \union Sizes]
    BY <2>1 DEF UpstreamAnswers, AudioInv, AudioTypeOK
  <2>4. AudioTypeOK'
    BY <2>1, <2>2, <2>3 DEF UpstreamAnswers, AudioInv, AudioTypeOK, server, audioMACKey
  <2> QED
    BY <2>1, <2>2, <2>4, OtherStep DEF UpstreamAnswers
<1>4. CASE UpstreamFails(f)
  BY <1>4, EndStep DEF UpstreamFails
<1>5. CASE ReadPart(f)
  <2>1. /\ at' \in [Fetches -> {"idle"} \union InFlight \union Ended] /\ at'[f] = "writing"
        /\ \A g \in Fetches : g # f => at'[g] = at[g]
    BY <1>0, <1>5 DEF ReadPart, InFlight
  <2>2. AudioTypeOK'
    BY <1>5, <2>1 DEF ReadPart, AudioInv, AudioTypeOK, server, fetch, audioMACKey
  <2>3. sent' = sent /\ sent[f] < Limit
    BY <1>5 DEF ReadPart, MoreToCopy, fetch
  <2> QED
    BY <1>5, <2>1, <2>2, <2>3, OtherStep DEF ReadPart, fetch
<1>6. CASE WritePart(f)
  <2>1. sent[f] \in 0..Limit /\ sent[f] < Limit
    BY <1>0, <1>6 DEF WritePart, AudioInv, AudioTypeOK, FetchOK
  <2>2. sent[f] + 1 \in 0..Limit
    BY <2>1
  <2>3. /\ sent' \in [Fetches -> 0..Limit]
        /\ \A g \in Fetches : g # f => sent'[g] = sent[g]
    BY <1>6, <2>2 DEF WritePart, AudioInv, AudioTypeOK
  <2>4. AudioTypeOK'
    BY <1>0, <1>6, <2>3 DEF WritePart, AudioInv, AudioTypeOK, InFlight, server, audioMACKey
  <2> QED
    BY <1>0, <1>6, <2>3, <2>4, OtherStep DEF WritePart
<1>7. CASE CopyEnds(f)
  BY <1>7, EndStep DEF CopyEnds
<1>8. CASE CopyBreaks(f)
  BY <1>8, EndStep DEF CopyBreaks
<1>9. CASE DeadlinePasses(f)
  BY <1>9, EndStep DEF DeadlinePasses
<1> QED
  BY <1>1, <1>2, <1>3, <1>4, <1>5, <1>6, <1>7, <1>8, <1>9 DEF FetchStep

LEMMA AudioStep == AudioInv /\ [AudioNext]_audioVars => AudioInv'
<1> SUFFICES ASSUME AudioInv, [AudioNext]_audioVars PROVE AudioInv'
  OBVIOUS
<1>1. CASE UNCHANGED audioVars
  <2> USE <1>1 DEF audioVars, server, fetch
  <2>1. AudioTypeOK'
    BY DEF AudioInv, AudioTypeOK, audioMACKey
  <2>2. KeysOK'
    BY DEF AudioInv, KeysOK, SecretOf, audioMACKey
  <2>3. \A f \in Fetches : FetchOK(f)'
    BY DEF AudioInv, FetchOK, Cause
  <2> QED
    BY <2>1, <2>2, <2>3 DEF AudioInv
<1>2. CASE AudioNext
  BY <1>2, FetchStepKeeps, LinkStepKeeps, RestartKeeps DEF AudioNext
<1> QED
  BY <1>1, <1>2

LEMMA AudioInvariant == AudioSpec => []AudioInv
  BY InitialAudio, AudioStep, PTL DEF AudioSpec

-----------------------------------------------------------------------------
\* Types; and no response of the proxy is longer than maxAudioBytes, however long
\* the upstream body is.
THEOREM ProxyTypeCorrect == AudioSpec => []AudioTypeOK
<1>1. AudioInv => AudioTypeOK
  BY DEF AudioInv
<1> QED
  BY <1>1, AudioInvariant, PTL

\* A stored link is refused only for its age, or because the server that posted it
\* and the one that is asked are two starts of which one generated its secret.
THEOREM DeadLinksHaveCause == AudioSpec => []DeadLinkHasCause
<1>1. AudioInv => DeadLinkHasCause
  BY DEF AudioInv, FetchOK, Cause, DeadLinkHasCause
<1> QED
  BY <1>1, AudioInvariant, PTL
=============================================================================
