----------------------------- MODULE AudioProxy -----------------------------
(***************************************************************************)
(* Audio links and the proxy behind them: handleAudio of                   *)
(* internal/integration/barsukas_integration.go, audio_token.go, and       *)
(* handleAudioProxy of internal/handler/audio.go.                          *)
(*                                                                         *)
(* A link is a token in a stored message, with the MAC of the server that  *)
(* posted it, and good for a day; the message stays for ever.  A MAC       *)
(* stands for the key it was made with: the payload is never changed.      *)
(* A fetch is one GET /audio/{token}; its context ends 15 seconds after    *)
(* the token was verified, whatever the request is doing then.  Bodies are *)
(* counted in units: maxAudioBytes is Limit of them.                       *)
(***************************************************************************)
EXTENDS Naturals

CONSTANTS
  Links,    \* audio links in messages
  Fetches,  \* requests to the proxy
  Sizes,    \* sizes an upstream file may have
  Limit,    \* maxAudioBytes
  NoLink

ASSUME LimitAssumption == Limit \in Nat /\ Sizes \subseteq Nat
ASSUME NoLinkAssumption == NoLink \notin Links

VARIABLES
  secret,     \* the session secret of the running server
  mac,        \* the key of each link's MAC; none before the link is posted
  expired,    \* links that are more than a day old
  at,         \* where each fetch is
  link,       \* the link it is for
  size,       \* the size of the upstream body
  sent,       \* how much of it the client was sent
  start,      \* history: which start of the server this is
  generated,  \* history: starts without SESSION_SECRET
  postedIn,   \* history: the start in which each link was posted, 0 before
  askedIn     \* history: the start in which each fetch showed its token

server == <<secret, start, generated>>
fetch == <<link, size, sent, askedIn>>

audioVars == <<server, mac, postedIn, expired, at, fetch>>

\* main: SESSION_SECRET, or a secret that no other start has.
Configured == 0

GenerateSecret(n) == n

InFlight == {"asking", "reading", "writing"}

Ended == {"unauthorized", "forbidden", "bad gateway", "done", "cut", "broken"}

AudioInit ==
  /\ start = 1
  /\ \/ secret = Configured /\ generated = {}
     \/ secret = GenerateSecret(start) /\ generated = {start}
  /\ mac = [l \in Links |-> <<>>]
  /\ postedIn = [l \in Links |-> 0]
  /\ expired = {}
  /\ at = [f \in Fetches |-> "idle"]
  /\ link = [f \in Fetches |-> NoLink]
  /\ size = [f \in Fetches |-> 0]
  /\ sent = [f \in Fetches |-> 0]
  /\ askedIn = [f \in Fetches |-> 0]

Move(f, from, to) ==
  /\ at[f] = from
  /\ at' = [at EXCEPT ![f] = to]

KeyOfProcess(s) == <<"knoblauch-audio-proxy-v1", s, start>>   \* mutant: of this process only

audioMACKey(s) == <<"knoblauch-audio-proxy-v1", s>>

\* handleAudio answers a mention with a link that SignAudioURL signs, and the
\* answer is stored.
PostLink(l) ==
  /\ postedIn[l] = 0
  /\ mac' = [mac EXCEPT ![l] = audioMACKey(secret)]
  /\ postedIn' = [postedIn EXCEPT ![l] = start]
  /\ UNCHANGED <<server, expired, at, fetch>>

LinkExpires(l) ==
  /\ postedIn[l] # 0
  /\ expired' = expired \union {l}
  /\ UNCHANGED <<server, mac, postedIn, at, fetch>>

\* VerifyAudioToken
Verifies(l) == mac[l] = audioMACKey(secret) /\ l \notin expired

Unauthorized(f) ==
  /\ Move(f, "idle", "unauthorized")
  /\ UNCHANGED <<server, mac, postedIn, expired, fetch>>

Play(f, l) ==
  /\ postedIn[l] # 0
  /\ Move(f, "idle", IF Verifies(l) THEN "asking" ELSE "forbidden")
  /\ link' = [link EXCEPT ![f] = l]
  /\ askedIn' = [askedIn EXCEPT ![f] = start]
  /\ UNCHANGED <<server, mac, postedIn, expired, size, sent>>

UpstreamAnswers(f, n) ==
  /\ Move(f, "asking", "reading")
  /\ size' = [size EXCEPT ![f] = n]
  /\ UNCHANGED <<server, mac, postedIn, expired, link, sent, askedIn>>

\* No connection, or no header within ten seconds.
UpstreamFails(f) ==
  /\ Move(f, "asking", "bad gateway")
  /\ UNCHANGED <<server, mac, postedIn, expired, fetch>>

MoreToRead(f) == sent[f] < size[f]   \* mutant of MoreToCopy: no io.LimitReader

MoreToCopy(f) == sent[f] < size[f] /\ sent[f] < Limit

\* io.Copy reads a part of the body, and then writes it to the client: the Write
\* returns when the client has room for it, and no deadline interrupts it.
ReadPart(f) ==
  /\ MoreToCopy(f)
  /\ Move(f, "reading", "writing")
  /\ UNCHANGED <<server, mac, postedIn, expired, fetch>>

WritePart(f) ==
  /\ Move(f, "writing", "reading")
  /\ sent' = [sent EXCEPT ![f] = @ + 1]
  /\ UNCHANGED <<server, mac, postedIn, expired, link, size, askedIn>>

CopyEnds(f) ==
  /\ ~MoreToCopy(f)
  /\ Move(f, "reading", "done")
  /\ UNCHANGED <<server, mac, postedIn, expired, fetch>>

\* The client goes away, or the upstream connection breaks.
CopyBreaks(f) ==
  /\ Move(f, "reading", "broken") \/ Move(f, "writing", "broken")
  /\ UNCHANGED <<server, mac, postedIn, expired, fetch>>

\* Mutant of DeadlinePasses: the context covers the round trip only.
DeadlineOfHeader(f) ==
  /\ Move(f, "asking", "bad gateway")
  /\ UNCHANGED <<server, mac, postedIn, expired, fetch>>

\* Fifteen seconds after the token was verified, or when the Write that they
\* end in returns: Do or the next Read of the body fails.
DeadlinePasses(f) ==
  /\ Move(f, "asking", "bad gateway") \/ Move(f, "reading", "cut")
  /\ UNCHANGED <<server, mac, postedIn, expired, fetch>>

\* The next start may be with SESSION_SECRET or without.
Restart ==
  /\ start' = start + 1
  /\ \/ secret' = Configured /\ generated' = generated
     \/ secret' = GenerateSecret(start') /\ generated' = generated \union {start'}
  /\ at' = [f \in Fetches |-> IF at[f] \in InFlight THEN "broken" ELSE at[f]]
  /\ UNCHANGED <<mac, postedIn, expired, fetch>>

FetchStep(f) ==
  \/ Unauthorized(f)
  \/ \E l \in Links : Play(f, l)
  \/ \E n \in Sizes : UpstreamAnswers(f, n)
  \/ UpstreamFails(f)
  \/ ReadPart(f)
  \/ WritePart(f)
  \/ CopyEnds(f)
  \/ CopyBreaks(f)
  \/ DeadlinePasses(f)

LinkStep(l) == PostLink(l) \/ LinkExpires(l)

AudioNext ==
  \/ \E f \in Fetches : FetchStep(f)
  \/ \E l \in Links : LinkStep(l)
  \/ Restart

AudioSpec == AudioInit /\ [][AudioNext]_audioVars

\* Time passes; nothing is assumed of the upstream server or of the client.
FairAudioSpec == AudioSpec /\ \A f \in Fetches : WF_audioVars(DeadlinePasses(f))
-----------------------------------------------------------------------------
\* Types; and no response is longer than maxAudioBytes.
AudioTypeOK ==
  /\ start \in Nat \ {0}
  /\ secret \in 0..start
  /\ mac \in [Links -> {<<>>} \union {audioMACKey(s) : s \in 0..start}]
  /\ expired \subseteq Links
  /\ at \in [Fetches -> {"idle"} \union InFlight \union Ended]
  /\ link \in [Fetches -> Links \union {NoLink}]
  /\ size \in [Fetches -> {0} \union Sizes]
  /\ sent \in [Fetches -> 0..Limit]
  /\ generated \subseteq 1..start
  /\ postedIn \in [Links -> 0..start]
  /\ askedIn \in [Fetches -> 0..start]

\* The link of a stored message fails with 403 only when it is a day old, or was
\* posted under another start of the server and one of the two generated its
\* secret: whatever starts come between, those with SESSION_SECRET honour the
\* links of each other.
DeadLinkHasCause ==
  \A f \in Fetches : at[f] = "forbidden" =>
     \/ link[f] \in expired
     \/ /\ postedIn[link[f]] # askedIn[f]
        /\ {postedIn[link[f]], askedIn[f]} \intersect generated # {}

\* An upstream server that stops in the middle of the body holds no fetch for
\* ever: from some time on a fetch that has not ended waits for its client alone,
\* for whom there is no deadline.
OnlyClientHoldsFetch ==
  \A f \in Fetches : <>[](at[f] \in InFlight => at[f] = "writing")

\* "Timeout is on the initial round-trip only (via context); the body copy itself
\* is unbounded so that large files can stream."
DeadlineSparesBody == \A f \in Fetches : at[f] = "cut" => ~MoreToCopy(f)
=============================================================================
