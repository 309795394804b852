---------------------------- MODULE FormsProofs ----------------------------
(***************************************************************************)
(* What the two forms beside the chat promise, each for all values of its  *)
(* constants: a save of the settings (Profile), and what handleNewChannel  *)
(* tells the makers of channels (ChannelList).                             *)
(***************************************************************************)
EXTENDS Profile, ChannelList, SequenceTheorems, TLAPS

USE ZoneAssumption, DefaultAssumption

Unwritten == {"idle", "unauthorized", "rejected", "update"}

\* What the place of a save says of its user, form and version.
SaveOK(s) ==
  /\ pc[s] \in {"update", "reread", "saved", "not saved", "db error"} =>
       who[s] \in Users /\ form[s] \in Profiles
  /\ pc[s] \in Unwritten => wrote[s] = 0
  /\ pc[s] \in {"reread", "saved", "db error"} => wrote[s] # 0
  /\ wrote[s] # 0 =>
       /\ who[s] \in Users
       /\ wrote[s] \in 2..Len(history[who[s]])
       /\ history[who[s]][wrote[s]] = form[s]

\* A row holds the last of its versions.
RowIsLast ==
  \A u \in Users : Len(history[u]) >= 1 /\ row[u] = history[u][Len(history[u])]

ProfileInv ==
  /\ ProfileTypeOK
  /\ \A s \in Saves : SaveOK(s)
  /\ RowIsLast
  /\ VersionsAreSaves
  /\ SavedPageIsCurrent

-----------------------------------------------------------------------------
\* What appending a version does to the versions of a row.
LEMMA AppendVersion ==
  ASSUME NEW h \in Seq(Profiles), NEW p \in Profiles
  PROVE  /\ Append(h, p) \in Seq(Profiles)
         /\ Len(h) \in Nat
         /\ Len(Append(h, p)) = Len(h) + 1
         /\ Append(h, p)[Len(h) + 1] = p
         /\ \A k \in 1..Len(h) : Append(h, p)[k] = h[k]
  OBVIOUS

\* A position among the versions stays one when there are more of them.
LEMMA Position ==
  /\ \A n \in Nat : n # 0 => n >= 1
  /\ \A a, m, n \in Nat : \A k \in a..m :
       (n >= m => k \in a..n) /\ (a >= 1 => k \in 1..m)
  /\ \A m \in Nat : \A k \in 2..m : k # 0 /\ k \in 1..m
  OBVIOUS

\* An empty time zone is stored as the default one.
LEMMA NormalForm ==
  ASSUME NEW f \in Forms
  PROVE  Normal(f) \in Profiles
  BY DEF Forms, Profiles, Normal

LEMMA InitialProfile == ProfileInit => ProfileInv
<1> SUFFICES ASSUME ProfileInit PROVE ProfileInv
  OBVIOUS
<1> USE DEF ProfileInit
<1>1. /\ <<Default>> \in Seq(Profiles) /\ Len(<<Default>>) = 1
      /\ <<Default>>[1] = Default
  OBVIOUS
<1>2. ProfileTypeOK
  BY <1>1 DEF ProfileTypeOK
<1>3. \A s \in Saves : SaveOK(s)
  BY DEF SaveOK, Unwritten
<1>4. RowIsLast
  <2> SUFFICES ASSUME NEW u \in Users
               PROVE  Len(history[u]) >= 1 /\ row[u] = history[u][Len(history[u])]
    BY DEF RowIsLast
  <2>1. history[u] = <<Default>> /\ row[u] = Default
    OBVIOUS
  <2> QED
    BY <1>1, <2>1
<1>5. VersionsAreSaves
  BY <1>1 DEF VersionsAreSaves
<1>6. SavedPageIsCurrent
  BY DEF SavedPageIsCurrent
<1> QED
  BY <1>2, <1>3, <1>4, <1>5, <1>6 DEF ProfileInv

\* A step that writes no row keeps what the rows' versions say.
LEMMA NoWriteStep ==
  ASSUME ProfileInv, UNCHANGED <<row, history, wrote>>,
         \A s \in Saves : wrote[s] # 0 => who'[s] = who[s] /\ form'[s] = form[s]
  PROVE  RowIsLast' /\ VersionsAreSaves'
<1>1. RowIsLast'
  BY DEF ProfileInv, RowIsLast
<1>2. ASSUME NEW u \in Users, NEW k \in 2..Len(history[u])
      PROVE  \E s \in Saves : who'[s] = u /\ wrote[s] = k /\ form'[s] = history[u][k]
  <2>1. PICK s \in Saves : who[s] = u /\ wrote[s] = k /\ form[s] = history[u][k]
    BY <1>2 DEF ProfileInv, VersionsAreSaves
  <2> QED
    BY <2>1
<1>3. VersionsAreSaves'
  BY <1>2 DEF VersionsAreSaves
<1> QED
  BY <1>1, <1>3

\* The UPDATE adds the save's own form as the last version of its user's row.
LEMMA UpdateRowStep ==
  ASSUME ProfileInv, NEW s \in Saves, pc[s] = "update", UpdateRow(s),
         UNCHANGED <<who, form>>
  PROVE  /\ row' \in [Users -> Profiles]
         /\ history' \in [Users -> Seq(Profiles)]
         /\ wrote' \in [Saves -> Nat]
         /\ RowIsLast'
         /\ VersionsAreSaves'
         /\ \A t \in Saves : t # s => wrote'[t] = wrote[t]
         /\ wrote'[s] \in 2..Len(history'[who[s]])
         /\ history'[who[s]][wrote'[s]] = form[s]
         /\ \A u \in Users : /\ Len(history'[u]) >= Len(history[u])
                             /\ \A k \in 1..Len(history[u]) : history'[u][k] = history[u][k]
<1> DEFINE w == who[s]
           h == history[w]
<1>1. w \in Users /\ form[s] \in Profiles /\ wrote[s] = 0
  BY DEF ProfileInv, SaveOK, Unwritten
<1>2. h \in Seq(Profiles) /\ Len(h) >= 1 /\ Len(h) \in Nat
  <2>1. h \in Seq(Profiles)
    BY <1>1 DEF ProfileInv, ProfileTypeOK
  <2>2. Len(h) >= 1
    BY <1>1 DEF ProfileInv, RowIsLast
  <2>3. Len(h) \in Nat
    BY <2>1, LenProperties
  <2> QED
    BY <2>1, <2>2, <2>3
<1>3. /\ history' = [history EXCEPT ![w] = Append(h, form[s])]
      /\ row' = [row EXCEPT ![w] = form[s]]
      /\ wrote' = [wrote EXCEPT ![s] = Len(h) + 1]
  BY DEF UpdateRow, Columns
<1>4. /\ Append(h, form[s]) \in Seq(Profiles)
      /\ Len(Append(h, form[s])) = Len(h) + 1
      /\ Append(h, form[s])[Len(h) + 1] = form[s]
      /\ \A k \in 1..Len(h) : Append(h, form[s])[k] = h[k]
  BY <1>1, <1>2, AppendVersion
<1>5. /\ row' \in [Users -> Profiles]
      /\ history' \in [Users -> Seq(Profiles)]
      /\ wrote' \in [Saves -> Nat]
  <2>1. row \in [Users -> Profiles] /\ history \in [Users -> Seq(Profiles)]
        /\ wrote \in [Saves -> Nat]
    BY DEF ProfileInv, ProfileTypeOK
  <2>2. row' \in [Users -> Profiles]
    BY <1>1, <1>3, <2>1
  <2>3. history' \in [Users -> Seq(Profiles)]
    BY <1>3, <1>4, <2>1
  <2>4. wrote' \in [Saves -> Nat]
    BY <1>2, <1>3, <2>1
  <2> QED
    BY <2>2, <2>3, <2>4, Position
<1>6. /\ history'[w] = Append(h, form[s])
      /\ \A u \in Users : u # w => history'[u] = history[u] /\ row'[u] = row[u]
      /\ row'[w] = form[s]
      /\ wrote'[s] = Len(h) + 1
      /\ \A t \in Saves : t # s => wrote'[t] = wrote[t]
  BY <1>1, <1>3 DEF ProfileInv, ProfileTypeOK
<1>7. \A u \in Users : /\ Len(history'[u]) >= Len(history[u])
                       /\ \A k \in 1..Len(history[u]) : history'[u][k] = history[u][k]
  <2> TAKE u \in Users
  <2>1. CASE u = w
    BY <2>1, <1>2, <1>4, <1>6
  <2>2. CASE u # w
    <3>1. history[u] \in Seq(Profiles)
      BY DEF ProfileInv, ProfileTypeOK
    <3>2. Len(history[u]) \in Nat
      BY <3>1, LenProperties
    <3> QED
      BY <2>2, <3>2, <1>6
  <2> QED
    BY <2>1, <2>2
<1>8. RowIsLast'
  <2> SUFFICES ASSUME NEW u \in Users
               PROVE  Len(history'[u]) >= 1 /\ row'[u] = history'[u][Len(history'[u])]
    BY DEF RowIsLast
  <2>1. CASE u = w
    BY <2>1, <1>2, <1>4, <1>6
  <2>2. CASE u # w
    BY <2>2, <1>6 DEF ProfileInv, RowIsLast
  <2> QED
    BY <2>1, <2>2
<1>9. VersionsAreSaves'
  <2> SUFFICES ASSUME NEW u \in Users, NEW k \in 2..Len(history'[u])
               PROVE  \E t \in Saves : /\ who[t] = u /\ wrote'[t] = k
                                       /\ form[t] = history'[u][k]
    BY DEF VersionsAreSaves
  <2>1. CASE u = w /\ k = Len(h) + 1
    BY <2>1, <1>4, <1>6
  <2>2. CASE ~(u = w /\ k = Len(h) + 1)
    <3>1. k \in 2..Len(history[u])
      <4>1. CASE u = w
        BY <4>1, <2>2, <1>2, <1>4, <1>6
      <4>2. CASE u # w
        BY <4>2, <1>6
      <4> QED
        BY <4>1, <4>2
    <3>2. PICK t \in Saves : who[t] = u /\ wrote[t] = k /\ form[t] = history[u][k]
      BY <3>1 DEF ProfileInv, VersionsAreSaves
    <3>3. t # s
      BY <3>1, <3>2, <1>1
    <3>4. history'[u][k] = history[u][k]
      <4>1. k \in 1..Len(history[u])
        BY <3>1
      <4> QED
        BY <4>1, <1>7
    <3> QED
      BY <3>2, <3>3, <3>4, <1>6
  <2> QED
    BY <2>1, <2>2
<1>10. wrote'[s] \in 2..Len(history'[w]) /\ history'[w][wrote'[s]] = form[s]
  BY <1>2, <1>4, <1>6
<1> QED
  BY <1>5, <1>6, <1>7, <1>8, <1>9, <1>10

-----------------------------------------------------------------------------
\* A step of one save leaves the invariant to that save, if it writes no row.
LEMMA QuietStep ==
  ASSUME ProfileInv, NEW s \in Saves,
         UNCHANGED <<row, history, wrote>>,
         \A t \in Saves : t # s => /\ pc'[t] = pc[t] /\ who'[t] = who[t]
                                   /\ form'[t] = form[t] /\ shown'[t] = shown[t],
         wrote[s] # 0 => who'[s] = who[s] /\ form'[s] = form[s],
         ProfileTypeOK', SaveOK(s)',
         pc'[s] = "saved" =>
           \E k \in wrote[s]..Len(history[who'[s]]) : shown'[s] = history[who'[s]][k]
  PROVE  ProfileInv'
<1>1. RowIsLast' /\ VersionsAreSaves'
  <2>1. \A t \in Saves : wrote[t] # 0 => who'[t] = who[t] /\ form'[t] = form[t]
    OBVIOUS
  <2> QED
    BY <2>1, NoWriteStep
<1>2. ASSUME NEW t \in Saves PROVE SaveOK(t)'
  <2>1. CASE t = s
    BY <2>1
  <2>2. CASE t # s
    BY <2>2 DEF ProfileInv, SaveOK
  <2> QED
    BY <2>1, <2>2
<1>3. SavedPageIsCurrent'
  BY DEF ProfileInv, SavedPageIsCurrent
<1> QED
  BY <1>1, <1>2, <1>3 DEF ProfileInv

\* A step that performs the UPDATE, whatever is answered then.
LEMMA WriteStep ==
  ASSUME ProfileInv, NEW s \in Saves, pc[s] = "update", UpdateRow(s),
         UNCHANGED <<who, form>>,
         \E to \in {"reread", "not saved"} : pc' = [pc EXCEPT ![s] = to],
         shown' \in [Saves -> Forms \union {NoForm}],
         \A t \in Saves : t # s => shown'[t] = shown[t]
  PROVE  ProfileInv'
<1>1. /\ row' \in [Users -> Profiles]
      /\ history' \in [Users -> Seq(Profiles)]
      /\ wrote' \in [Saves -> Nat]
      /\ RowIsLast'
      /\ VersionsAreSaves'
      /\ \A t \in Saves : t # s => wrote'[t] = wrote[t]
      /\ wrote'[s] \in 2..Len(history'[who[s]])
      /\ history'[who[s]][wrote'[s]] = form[s]
      /\ \A u \in Users : /\ Len(history'[u]) >= Len(history[u])
                          /\ \A k \in 1..Len(history[u]) : history'[u][k] = history[u][k]
  BY UpdateRowStep
<1>2. PICK to \in {"reread", "not saved"} : pc' = [pc EXCEPT ![s] = to]
  OBVIOUS
<1>3. /\ pc'[s] \in {"reread", "not saved"}
      /\ \A t \in Saves : t # s => pc'[t] = pc[t]
  BY <1>2 DEF ProfileInv, ProfileTypeOK
<1>4. ProfileTypeOK'
  BY <1>1, <1>2 DEF ProfileInv, ProfileTypeOK
<1>5. ASSUME NEW u \in Users
      PROVE  Len(history[u]) \in Nat /\ Len(history'[u]) \in Nat
  <2>1. history[u] \in Seq(Profiles) /\ history'[u] \in Seq(Profiles)
    BY <1>1 DEF ProfileInv, ProfileTypeOK
  <2> QED
    BY <2>1, LenProperties
<1>6. ASSUME NEW t \in Saves PROVE SaveOK(t)'
  <2>1. CASE t = s
    <3>1. who[s] \in Users /\ form[s] \in Profiles
      BY DEF ProfileInv, SaveOK
    <3>2. who'[s] = who[s] /\ form'[s] = form[s] /\ wrote'[s] # 0
      <4>1. Len(history'[who[s]]) \in Nat
        BY <3>1, <1>5
      <4> QED
        BY <1>1, <4>1, Position
    <3>3. /\ wrote'[s] \in 2..Len(history'[who'[s]])
          /\ history'[who'[s]][wrote'[s]] = form'[s]
      BY <3>2, <1>1
    <3> QED
      BY <2>1, <3>1, <3>2, <3>3, <1>3 DEF SaveOK, Unwritten
  <2>2. CASE t # s
    <3>1. SaveOK(t) /\ wrote[t] \in Nat
      BY DEF ProfileInv, ProfileTypeOK
    <3>2. pc'[t] = pc[t] /\ wrote'[t] = wrote[t] /\ who'[t] = who[t] /\ form'[t] = form[t]
      BY <2>2, <1>1, <1>3
    <3>3. CASE wrote[t] = 0
      BY <3>1, <3>2, <3>3 DEF SaveOK, Unwritten
    <3>4. CASE wrote[t] # 0
      <4> DEFINE n == Len(history[who[t]])
      <4>0. /\ who[t] \in Users /\ wrote[t] \in 2..n
            /\ history[who[t]][wrote[t]] = form[t]
        BY <3>1, <3>4 DEF SaveOK
      <4>1. n \in Nat /\ wrote[t] \in 1..n
        <5>1. n \in Nat
          BY <4>0, <1>5
        <5> QED
          BY <4>0, <5>1, Position
      <4>2. /\ history'[who[t]][wrote[t]] = history[who[t]][wrote[t]]
            /\ Len(history'[who[t]]) >= n
        BY <4>0, <4>1, <1>1
      <4>3. wrote[t] \in 2..Len(history'[who[t]])
        <5>1. Len(history'[who[t]]) \in Nat
          BY <4>0, <1>5
        <5> QED
          BY <4>0, <4>1, <4>2, <5>1, Position
      <4> QED
        BY <3>1, <3>2, <3>4, <4>0, <4>2, <4>3 DEF SaveOK, Unwritten
    <3> QED
      BY <3>3, <3>4
  <2> QED
    BY <2>1, <2>2
<1>7. SavedPageIsCurrent'
  <2> SUFFICES ASSUME NEW t \in Saves, pc'[t] = "saved"
               PROVE  \E k \in wrote'[t]..Len(history'[who[t]]) :
                         shown'[t] = history'[who[t]][k]
    BY DEF SavedPageIsCurrent
  <2>1. t # s /\ pc[t] = "saved"
    BY <1>3
  <2>2. PICK k \in wrote[t]..Len(history[who[t]]) : shown[t] = history[who[t]][k]
    BY <2>1 DEF ProfileInv, SavedPageIsCurrent
  <2>3. who[t] \in Users /\ wrote[t] \in Nat /\ wrote[t] >= 1
    <3>1. SaveOK(t) /\ wrote[t] \in Nat
      BY DEF ProfileInv, ProfileTypeOK
    <3>2. who[t] \in Users /\ wrote[t] # 0
      BY <2>1, <3>1 DEF SaveOK
    <3> QED
      BY <3>1, <3>2, Position
  <2>4. /\ Len(history[who[t]]) \in Nat /\ Len(history'[who[t]]) \in Nat
        /\ Len(history'[who[t]]) >= Len(history[who[t]])
    BY <2>3, <1>1, <1>5
  <2>7. k \in 1..Len(history[who[t]])
    BY <2>2, <2>3, <2>4, Position
  <2>5. k \in wrote'[t]..Len(history'[who[t]])
    <3>1. wrote'[t] = wrote[t]
      BY <2>1, <1>1
    <3> QED
      BY <2>2, <2>3, <2>4, <3>1, Position
  <2>6. shown'[t] = history'[who[t]][k]
    BY <2>1, <2>2, <2>3, <2>7, <1>1
  <2> QED
    BY <2>5, <2>6
<1> QED
  BY <1>1, <1>4, <1>6, <1>7 DEF ProfileInv

LEMMA UnauthorizedStep ==
  ASSUME ProfileInv, NEW s \in Saves, Unauthorized(s) PROVE ProfileInv'
<1> USE DEF Unauthorized, Move
<1>1. ProfileTypeOK'
  BY DEF ProfileInv, ProfileTypeOK
<1>2. SaveOK(s)'
  BY DEF ProfileInv, ProfileTypeOK, SaveOK, Unwritten
<1> QED
  BY <1>1, <1>2, QuietStep DEF ProfileInv, ProfileTypeOK

LEMMA RejectFormStep ==
  ASSUME ProfileInv, NEW s \in Saves, NEW u \in Users, NEW f \in Forms, RejectForm(s, u, f)
  PROVE  ProfileInv'
<1> USE DEF RejectForm, Move
<1>1. ProfileTypeOK'
  BY DEF ProfileInv, ProfileTypeOK
<1>2. SaveOK(s)'
  BY DEF ProfileInv, ProfileTypeOK, SaveOK, Unwritten
<1>3. wrote[s] = 0
  BY DEF ProfileInv, SaveOK, Unwritten
<1> QED
  BY <1>1, <1>2, <1>3, QuietStep DEF ProfileInv, ProfileTypeOK

LEMMA SubmitStep ==
  ASSUME ProfileInv, NEW s \in Saves, NEW u \in Users, NEW f \in Forms, Submit(s, u, f)
  PROVE  ProfileInv'
<1> USE DEF Submit, Move
<1>1. Normal(f) \in Profiles
  BY NormalForm
<1>2. ProfileTypeOK'
  BY <1>1 DEF ProfileInv, ProfileTypeOK
<1>3. wrote[s] = 0
  BY DEF ProfileInv, SaveOK, Unwritten
<1>4. SaveOK(s)'
  BY <1>1, <1>3 DEF ProfileInv, ProfileTypeOK, SaveOK, Unwritten
<1> QED
  BY <1>2, <1>3, <1>4, QuietStep DEF ProfileInv, ProfileTypeOK

LEMMA UpdateStep ==
  ASSUME ProfileInv, NEW s \in Saves, Update(s) PROVE ProfileInv'
  BY WriteStep DEF Update, Move, ProfileInv, ProfileTypeOK

LEMMA UpdateFailsStep ==
  ASSUME ProfileInv, NEW s \in Saves, UpdateFails(s) PROVE ProfileInv'
<1> USE DEF UpdateFails, Move
<1>1. form[s] \in Profiles
  BY DEF ProfileInv, SaveOK
<1>2. form[s] \in Forms
  BY <1>1 DEF Profiles, Forms
<1>3. /\ shown' \in [Saves -> Forms \union {NoForm}]
      /\ \A t \in Saves : t # s => shown'[t] = shown[t]
  BY <1>2 DEF ProfileInv, ProfileTypeOK
<1>4. CASE UpdateRow(s)
  BY <1>3, <1>4, WriteStep
<1>5. CASE UNCHANGED <<row, history, wrote>>
  <2>1. ProfileTypeOK'
    BY <1>3, <1>5 DEF ProfileInv, ProfileTypeOK
  <2>2. SaveOK(s)'
    BY <1>5 DEF ProfileInv, ProfileTypeOK, SaveOK, Unwritten
  <2> QED
    BY <2>1, <2>2, <1>3, <1>5, QuietStep DEF ProfileInv, ProfileTypeOK
<1> QED
  BY <1>4, <1>5

LEMMA RereadStep ==
  ASSUME ProfileInv, NEW s \in Saves, Reread(s) PROVE ProfileInv'
<1> USE DEF Reread, Move
<1>1. /\ who[s] \in Users /\ wrote[s] \in 2..Len(history[who[s]])
      /\ row[who[s]] \in Forms
  <2>1. who[s] \in Users /\ wrote[s] \in 2..Len(history[who[s]])
    BY DEF ProfileInv, SaveOK
  <2>2. row[who[s]] \in Profiles
    BY <2>1 DEF ProfileInv, ProfileTypeOK
  <2> QED
    BY <2>1, <2>2 DEF Profiles, Forms
<1>2. ProfileTypeOK'
  BY <1>1 DEF ProfileInv, ProfileTypeOK, ReadBack
<1>3. SaveOK(s)'
  BY DEF ProfileInv, ProfileTypeOK, SaveOK, Unwritten
<1>4. Len(history[who[s]]) \in wrote[s]..Len(history[who[s]])
  <2>1. history[who[s]] \in Seq(Profiles)
    BY <1>1 DEF ProfileInv, ProfileTypeOK
  <2>2. Len(history[who[s]]) \in Nat
    BY <2>1, LenProperties
  <2> QED
    BY <1>1, <2>2
<1>5. shown'[s] = history[who[s]][Len(history[who[s]])]
  BY <1>1 DEF ProfileInv, ProfileTypeOK, RowIsLast, ReadBack
<1> QED
  BY <1>2, <1>3, <1>4, <1>5, QuietStep DEF ProfileInv, ProfileTypeOK

LEMMA RereadFailsStep ==
  ASSUME ProfileInv, NEW s \in Saves, RereadFails(s) PROVE ProfileInv'
<1> USE DEF RereadFails, Move
<1>1. ProfileTypeOK'
  BY DEF ProfileInv, ProfileTypeOK
<1>2. SaveOK(s)'
  BY DEF ProfileInv, ProfileTypeOK, SaveOK, Unwritten
<1> QED
  BY <1>1, <1>2, QuietStep DEF ProfileInv, ProfileTypeOK

LEMMA ProfileStep == ProfileInv /\ [ProfileNext]_profileVars => ProfileInv'
<1> SUFFICES ASSUME ProfileInv, [ProfileNext]_profileVars PROVE ProfileInv'
  OBVIOUS
<1>1. CASE UNCHANGED profileVars
  <2> USE <1>1 DEF profileVars
  <2>1. ProfileTypeOK' /\ RowIsLast'
    BY DEF ProfileInv, ProfileTypeOK, RowIsLast
  <2>2. \A s \in Saves : SaveOK(s)'
    BY DEF ProfileInv, SaveOK
  <2>3. VersionsAreSaves' /\ SavedPageIsCurrent'
    BY DEF ProfileInv, VersionsAreSaves, SavedPageIsCurrent
  <2> QED
    BY <2>1, <2>2, <2>3 DEF ProfileInv
<1>2. CASE ProfileNext
  <2>1. PICK s \in Saves : SaveStep(s)
    BY <1>2 DEF ProfileNext
  <2> QED
    BY <2>1, UnauthorizedStep, RejectFormStep, SubmitStep, UpdateStep, UpdateFailsStep,
       RereadStep, RereadFailsStep DEF SaveStep
<1> QED
  BY <1>1, <1>2

LEMMA ProfileInvariant == ProfileSpec => []ProfileInv
  BY InitialProfile, ProfileStep, PTL DEF ProfileSpec

-----------------------------------------------------------------------------
\* The rows and the saves keep their types: a row's time zone is never empty.
THEOREM ProfileTypeCorrect == ProfileSpec => []ProfileTypeOK
<1>1. ProfileInv => ProfileTypeOK
  BY DEF ProfileInv
<1> QED
  BY <1>1, ProfileInvariant, PTL

\* However many tabs and devices save at once, a row never holds a mix of two
\* forms: UpdateUserSettings writes its three columns in one statement.
THEOREM SavesNeverMix == ProfileSpec => []VersionsAreSaves
<1>1. ProfileInv => VersionsAreSaves
  BY DEF ProfileInv
<1> QED
  BY <1>1, ProfileInvariant, PTL

\* The page that says "saved" never shows values from before the save.
THEOREM SavedPagesAreCurrent == ProfileSpec => []SavedPageIsCurrent
<1>1. ProfileInv => SavedPageIsCurrent
  BY DEF ProfileInv
<1> QED
  BY <1>1, ProfileInvariant, PTL

-----------------------------------------------------------------------------
USE NoNameAssumption

Places == {"idle", "rejected", "inserting", "holding", "refused",
           "created", "told it exists", "open", "not found", "lost"}

ChannelTypes ==
  /\ channels \subseteq ChannelNames
  /\ doing \in [Creators -> Places]
  /\ wanted \in [Creators -> ChannelNames \union {NoName}]
  /\ listed \in [Creators -> SUBSET ChannelNames]
  /\ broken \subseteq Creators

Made == {"created", "open", "not found"}

\* What the place of a request says of its name: it is free while its INSERT is
\* open, and taken once it is made or, unless the statement failed, refused.
MakerOK(c) ==
  /\ doing[c] \in {"inserting", "holding"} \union Made => wanted[c] \in ChannelNames
  /\ doing[c] = "holding" => wanted[c] \notin channels
  /\ doing[c] \in Made => wanted[c] \in channels
  /\ doing[c] \in {"refused", "told it exists"} /\ c \notin broken => wanted[c] \in channels
  /\ doing[c] = "not found" => c \in broken

\* The unique index: two open or committed INSERTs are of two names.
Unique ==
  \A c, d \in Creators :
     /\ doing[c] \in {"holding"} \union Made
     /\ doing[d] \in {"holding"} \union Made
     /\ wanted[c] = wanted[d]
     => c = d

ChannelInv ==
  /\ ChannelTypes
  /\ \A c \in Creators : MakerOK(c)
  /\ Unique

LEMMA InitialChannels == ChannelInit => ChannelInv
  BY DEF ChannelInit, ChannelInv, ChannelTypes, Places, MakerOK, Made, Unique

\* What moving one request does to where the requests are.
LEMMA StepMoves ==
  ASSUME ChannelInv, NEW c \in Creators, NEW from, NEW to \in Places, Step(c, from, to)
  PROVE  /\ doing[c] = from /\ doing'[c] = to
         /\ doing' \in [Creators -> Places]
         /\ \A d \in Creators : d # c => doing'[d] = doing[d]
  BY DEF Step, ChannelInv, ChannelTypes

\* A step that leaves the table and the names alone, and moves one request from
\* where its name was open or taken, or to where nothing is said of its name.
LEMMA MoveStep ==
  ASSUME ChannelInv, NEW c \in Creators, NEW from, NEW to \in Places, Step(c, from, to),
         UNCHANGED <<channels, wanted>>, listed' \in [Creators -> SUBSET ChannelNames],
         broken' \in {broken, broken \union {c}},
         to \in Made => from \in Made,
         to \notin {"inserting", "holding"},
         to \in {"refused", "told it exists"} /\ c \notin broken' => wanted[c] \in channels,
         to = "not found" => c \in broken'
  PROVE  ChannelInv'
<1>1. /\ doing[c] = from /\ doing'[c] = to
      /\ doing' \in [Creators -> Places]
      /\ \A d \in Creators : d # c => doing'[d] = doing[d]
  BY StepMoves
<1>2. ChannelTypes'
  BY <1>1 DEF ChannelInv, ChannelTypes
<1>3. ASSUME NEW d \in Creators PROVE MakerOK(d)'
  <2>1. CASE d = c
    BY <2>1, <1>1 DEF ChannelInv, MakerOK, Made
  <2>2. CASE d # c
    BY <2>2, <1>1 DEF ChannelInv, MakerOK
  <2> QED
    BY <2>1, <2>2
<1>4. Unique'
  <2>1. \A d \in Creators : doing'[d] \in {"holding"} \union Made =>
                              doing[d] \in {"holding"} \union Made
    BY <1>1
  <2> QED
    BY <2>1 DEF ChannelInv, Unique
<1> QED
  BY <1>2, <1>3, <1>4 DEF ChannelInv

LEMMA ShowFormKeeps ==
  ASSUME ChannelInv, NEW c \in Creators, NEW from,
         NEW to \in {"rejected", "told it exists"}, ShowForm(c, from, to),
         to = "told it exists" /\ c \notin broken => wanted[c] \in channels
  PROVE  ChannelInv'
<1>1. listed' \in [Creators -> SUBSET ChannelNames]
  BY DEF ShowForm, ChannelInv, ChannelTypes
<1>2. to \in Places /\ to \notin Made
  BY DEF Places, Made
<1> QED
  BY <1>1, <1>2, MoveStep DEF ShowForm

LEMMA CreateChannelKeeps ==
  ASSUME ChannelInv, NEW c \in Creators, NEW n \in ChannelNames, CreateChannel(c, n)
  PROVE  ChannelInv'
<1>1. /\ doing[c] = "idle" /\ doing'[c] = "inserting"
      /\ doing' \in [Creators -> Places]
      /\ \A d \in Creators : d # c => doing'[d] = doing[d]
  BY StepMoves DEF CreateChannel, Places
<1>2. /\ wanted'[c] = n
      /\ wanted' \in [Creators -> ChannelNames \union {NoName}]
      /\ \A d \in Creators : d # c => wanted'[d] = wanted[d]
  BY DEF CreateChannel, ChannelInv, ChannelTypes
<1>3. UNCHANGED <<channels, listed, broken>>
  BY DEF CreateChannel
<1> QED
  BY <1>1, <1>2, <1>3 DEF ChannelInv, ChannelTypes, MakerOK, Unique, Made

\* The index lets an INSERT in when its name is free and not being taken.
LEMMA InsertKeeps ==
  ASSUME ChannelInv, NEW c \in Creators, Insert(c)
  PROVE  ChannelInv'
<1>1. /\ doing[c] = "inserting" /\ doing'[c] = "holding"
      /\ doing' \in [Creators -> Places]
      /\ \A d \in Creators : d # c => doing'[d] = doing[d]
  BY StepMoves DEF Insert, Places
<1>2. UNCHANGED <<channels, wanted, listed, broken>> /\ wanted[c] \notin channels
  BY DEF Insert, Exists
<1>3. \A d \in Creators : doing[d] \in {"holding"} \union Made => wanted[d] # wanted[c]
  BY <1>2 DEF Insert, Holder, ChannelInv, MakerOK
<1>4. \A d \in Creators : MakerOK(d)'
  BY <1>1, <1>2 DEF ChannelInv, MakerOK, Made
<1>5. Unique'
  BY <1>1, <1>2, <1>3 DEF ChannelInv, Unique
<1> QED
  BY <1>1, <1>2, <1>4, <1>5 DEF ChannelInv, ChannelTypes

\* A commit of an open INSERT takes a name that no other open INSERT has.
LEMMA TakenName ==
  ASSUME ChannelInv, NEW c \in Creators, doing[c] = "holding",
         channels' = channels \union {wanted[c]}, UNCHANGED wanted,
         NEW d \in Creators, d # c, doing'[d] = doing[d], d \notin broken' => d \notin broken,
         d \in broken => d \in broken'
  PROVE  MakerOK(d)'
  BY DEF ChannelInv, MakerOK, Unique

LEMMA CommitKeeps ==
  ASSUME ChannelInv, NEW c \in Creators, Commit(c)
  PROVE  ChannelInv'
<1>1. /\ doing[c] = "holding" /\ doing'[c] = "created"
      /\ doing' \in [Creators -> Places]
      /\ \A d \in Creators : d # c => doing'[d] = doing[d]
  BY StepMoves DEF Commit, Places
<1>2. channels' = channels \union {wanted[c]} /\ UNCHANGED <<wanted, listed, broken>>
  BY DEF Commit
<1>3. wanted[c] \in ChannelNames
  BY <1>1 DEF ChannelInv, MakerOK
<1>4. MakerOK(c)'
  BY <1>1, <1>2, <1>3 DEF MakerOK, Made
<1>5. \A d \in Creators : MakerOK(d)'
  BY <1>1, <1>2, <1>4, TakenName
<1>6. Unique'
  BY <1>1, <1>2 DEF ChannelInv, Unique
<1> QED
  BY <1>1, <1>2, <1>3, <1>5, <1>6 DEF ChannelInv, ChannelTypes

LEMMA InsertFailsKeeps ==
  ASSUME ChannelInv, NEW c \in Creators, InsertFails(c)
  PROVE  ChannelInv'
<1>1. PICK from \in {"inserting", "holding"} :
        /\ Fail(c, from)
        /\ channels' # channels =>
             from = "holding" /\ channels' = channels \union {wanted[c]}
  <2>1. CASE Fail(c, "inserting") /\ UNCHANGED channels
    BY <2>1
  <2>2. CASE Fail(c, "holding") /\ channels' \in {channels, channels \union {wanted[c]}}
    BY <2>2
  <2> QED
    BY <2>1, <2>2 DEF InsertFails
<1>2. /\ doing[c] = from /\ doing'[c] = "refused"
      /\ doing' \in [Creators -> Places]
      /\ \A d \in Creators : d # c => doing'[d] = doing[d]
  BY <1>1, StepMoves DEF Fail, Places
<1>3. broken' = broken \union {c} /\ UNCHANGED <<wanted, listed>>
  BY <1>1 DEF Fail
<1>4. wanted[c] \in ChannelNames
  BY <1>1, <1>2 DEF ChannelInv, MakerOK
<1>5. ChannelTypes'
  BY <1>1, <1>2, <1>3, <1>4 DEF ChannelInv, ChannelTypes
<1>6. ASSUME NEW d \in Creators PROVE MakerOK(d)'
  <2>1. CASE d = c
    BY <2>1, <1>2, <1>3 DEF MakerOK, Made
  <2>2. CASE d # c /\ channels' = channels
    BY <2>2, <1>2, <1>3 DEF ChannelInv, MakerOK
  <2>3. CASE d # c /\ channels' # channels
    BY <2>3, <1>1, <1>2, <1>3, TakenName
  <2> QED
    BY <2>1, <2>2, <2>3
<1>7. Unique'
  BY <1>2, <1>3 DEF ChannelInv, Unique, Made
<1> QED
  BY <1>5, <1>6, <1>7 DEF ChannelInv

LEMMA CreatorStepKeeps ==
  ASSUME ChannelInv, NEW c \in Creators, CreatorStep(c)
  PROVE  ChannelInv'
<1>1. CASE RejectName(c)
  BY <1>1, ShowFormKeeps DEF RejectName
<1>2. CASE \E n \in ChannelNames : CreateChannel(c, n)
  BY <1>2, CreateChannelKeeps
<1>3. CASE RefuseTaken(c)
  <2>1. wanted[c] \in channels
    BY <1>3 DEF RefuseTaken, Exists
  <2>2. listed' \in [Creators -> SUBSET ChannelNames]
    BY <1>3 DEF RefuseTaken, ChannelInv, ChannelTypes
  <2> QED
    BY <1>3, <2>1, <2>2, MoveStep DEF RefuseTaken, Places, Made
<1>4. CASE SayExists(c)
  <2>1. doing[c] = "refused"
    BY <1>4 DEF SayExists, ShowForm, Step
  <2>2. c \notin broken => wanted[c] \in channels
    BY <2>1 DEF ChannelInv, MakerOK
  <2> QED
    BY <1>4, <2>2, ShowFormKeeps DEF SayExists
<1>5. CASE OpenPage(c)
  <2>1. doing[c] = "created"
    BY <1>5 DEF OpenPage, Step
  <2>2. wanted[c] \in channels
    BY <2>1 DEF ChannelInv, MakerOK, Made
  <2>3. listed' \in [Creators -> SUBSET ChannelNames]
    BY <1>5 DEF OpenPage, ChannelInv, ChannelTypes
  <2> QED
    BY <1>5, <2>2, <2>3, MoveStep DEF OpenPage, Places, Made
<1>6. CASE LookupFails(c)
  <2>1. listed' \in [Creators -> SUBSET ChannelNames]
    BY <1>6 DEF LookupFails, ChannelInv, ChannelTypes
  <2> QED
    BY <1>6, <2>1, MoveStep DEF LookupFails, Places, Made
<1>7. CASE ResponseLost(c)
  <2>1. listed' \in [Creators -> SUBSET ChannelNames]
    BY <1>7 DEF ResponseLost, ChannelInv, ChannelTypes
  <2> QED
    BY <1>7, <2>1, MoveStep DEF ResponseLost, Places, Made
<1> QED
  BY <1>1, <1>2, <1>3, <1>4, <1>5, <1>6, <1>7, InsertKeeps, CommitKeeps, InsertFailsKeeps
  DEF CreatorStep

LEMMA ChannelStep == ChannelInv /\ [ChannelNext]_channelVars => ChannelInv'
<1> SUFFICES ASSUME ChannelInv, [ChannelNext]_channelVars PROVE ChannelInv'
  OBVIOUS
<1>1. CASE UNCHANGED channelVars
  BY <1>1 DEF channelVars, ChannelInv, ChannelTypes, MakerOK, Unique
<1>2. CASE ChannelNext
  BY <1>2, CreatorStepKeeps DEF ChannelNext
<1> QED
  BY <1>1, <1>2

LEMMA ChannelInvariant == ChannelSpec => []ChannelInv
  BY InitialChannels, ChannelStep, PTL DEF ChannelSpec

-----------------------------------------------------------------------------
\* Types; and the unique index keeps the open INSERTs of a name to one.
THEOREM ChannelTypeCorrect == ChannelSpec => []ChannelTypeOK
<1>1. ChannelInv => ChannelTypeOK
  <2> SUFFICES ASSUME ChannelInv PROVE ChannelTypeOK
    OBVIOUS
  <2>1. ASSUME NEW c \in Creators, doing[c] = "holding"
        PROVE  wanted[c] \notin channels /\ Holder(wanted[c]) = {c}
    BY <2>1 DEF ChannelInv, MakerOK, Unique, Holder
  <2> QED
    BY <2>1 DEF ChannelInv, ChannelTypes, ChannelTypeOK, Places
<1> QED
  BY <1>1, ChannelInvariant, PTL

\* Of all who ask for a name at once one at most is sent to the new channel's page,
\* and unless the database failed in the request itself nobody is told "already
\* exists" of a channel that is not there.
THEOREM MakersToldTruth == ChannelSpec => []MakersAreToldTruth
<1>1. ChannelInv => MakersAreToldTruth
  <2> SUFFICES ASSUME ChannelInv PROVE MakersAreToldTruth
    OBVIOUS
  <2>1. OneMakerPerName
    <3> SUFFICES ASSUME NEW c \in Creators, NEW d \in Creators,
                        {doing[c], doing[d]} \subseteq {"created", "open", "not found"},
                        wanted[c] = wanted[d]
                 PROVE  c = d
      BY DEF OneMakerPerName
    <3>1. doing[c] \in Made /\ doing[d] \in Made
      BY DEF Made
    <3> QED
      BY <3>1 DEF ChannelInv, Unique
  <2>2. ASSUME NEW c \in Creators \ broken
        PROVE  doing[c] # "not found" /\ (doing[c] = "told it exists" => wanted[c] \in channels)
    BY <2>2 DEF ChannelInv, MakerOK
  <2> QED
    BY <2>1, <2>2 DEF MakersAreToldTruth
<1> QED
  BY <1>1, ChannelInvariant, PTL
=============================================================================
