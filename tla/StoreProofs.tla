------------------------------- MODULE StoreProofs -------------------------------
(***************************************************************************)
(* Proofs about what fetcharr stores and shows: the settings, the backups, *)
(* the queue page, the pickers, the requests and the login limit. Each has *)
(* an inductive invariant of its own; MCServices checks the properties on  *)
(* an instance.                                                            *)
(***************************************************************************)
EXTENDS SettingsStore, Backup, LiveView, Pickers, Requests, LoginLimit, TLAPS,
        FiniteSetTheorems, WellFoundedInduction

---------------------------------------------------------------------------
(* Settings                                                                *)

\* One call is in its transaction, and it has read what is still stored; what is stored
\* is what was last accepted.
ComposeInv ==
    /\ rows \in Stored /\ accepted = rows
    /\ body \in [Patches -> UNION {[fields -> Values \cup {Unset, Bad}] :
                                      fields \in SUBSET Fields}]
    /\ read \in [Patches -> Stored]
    /\ \A p \in Patches : body[p] # Nobody =>
          read[p] = rows /\ \A q \in Patches : body[q] # Nobody => q = p

\* "Only the given fields change" (update): for any maps of profiles, values and
\* environments, and any number of calls that overlap, are refused or give several fields.
THEOREM SettingsAreComposed == SettingsSpec => []SettingsCompose
<1> USE DEF ComposeInv
<1>1. SettingsInit => ComposeInv
  <2> SUFFICES ASSUME SettingsInit
               PROVE  ComposeInv
    OBVIOUS
  <2>1. Empty \in Stored
    BY DEF Empty, Stored
  <2>2. Nobody \in [{} -> Values \cup {Unset, Bad}]
    BY DEF Nobody
  <2>3. Nobody \in UNION {[fields -> Values \cup {Unset, Bad}] : fields \in SUBSET Fields}
    BY <2>2
  <2>4. \A p \in Patches : body[p] = Nobody
    BY DEF SettingsInit
  <2> QED
    BY <2>1, <2>3, <2>4 DEF SettingsInit
<1>2. ComposeInv /\ [SettingsNext]_settingsVars => ComposeInv'
  <2> SUFFICES ASSUME ComposeInv, [SettingsNext]_settingsVars
               PROVE  ComposeInv'
    OBVIOUS
  <2>1. CASE PatchBegins
    <3>1. PICK p \in Patches, b \in Bodies :
             /\ Enter(p)
             /\ body' = [body EXCEPT ![p] = b]
             /\ read' = [read EXCEPT ![p] = rows]
      BY <2>1 DEF PatchBegins
    <3>2. UNCHANGED <<rows, accepted>>
      BY <2>1 DEF PatchBegins
    <3>3. b \in UNION {[fields -> Values \cup {Unset, Bad}] : fields \in SUBSET Fields}
      BY DEF Bodies
    <3>4. \A q \in Patches \ {p} : body'[q] = Nobody
      BY <3>1 DEF Enter
    <3>5. read'[p] = rows
      BY <3>1
    <3>6. body' \in [Patches -> UNION {[fields -> Values \cup {Unset, Bad}] :
                                      fields \in SUBSET Fields}]
      BY <3>1, <3>3
    <3>7. read' \in [Patches -> Stored]
      BY <3>1
    <3> QED
      BY <3>2, <3>4, <3>5, <3>6, <3>7
  <2>2. CASE PatchEnds
    <3>1. PICK p \in Patches :
             /\ body[p] # Nobody
             /\ body' = [body EXCEPT ![p] = Nobody]
             /\ read' = [read EXCEPT ![p] = Empty]
             /\ IF \E f \in DOMAIN body[p] : body[p][f] = Bad
                THEN UNCHANGED <<rows, accepted, lostKey>>
                ELSE /\ rows' = PatchWrites(p)
                     /\ accepted' = [f \in Fields |->
                           IF f \in DOMAIN body[p] THEN body[p][f] ELSE accepted[f]]
                     /\ lostKey' = (lostKey /\ "api_key" \notin DOMAIN body[p])
      BY <2>2 DEF PatchEnds
    <3>2. Nobody \in UNION {[fields -> Values \cup {Unset, Bad}] : fields \in SUBSET Fields}
      <4>1. Nobody \in [{} -> Values \cup {Unset, Bad}]
        BY DEF Nobody
      <4> QED
        BY <4>1
    <3>3. \A q \in Patches : body'[q] = Nobody
      BY <3>1
    <3>4. body' \in [Patches -> UNION {[fields -> Values \cup {Unset, Bad}] :
                                         fields \in SUBSET Fields}]
      BY <3>1, <3>2
    <3>5. read' \in [Patches -> Stored]
      BY <3>1 DEF Empty, Stored
    <3>6. rows' \in Stored /\ accepted' = rows'
      <4>1. CASE \E f \in DOMAIN body[p] : body[p][f] = Bad
        BY <3>1, <4>1
      <4>2. CASE ~\E f \in DOMAIN body[p] : body[p][f] = Bad
        <5>1. DOMAIN body[p] \subseteq Fields /\ read[p] = rows
          BY <3>1
        <5>2. \A f \in DOMAIN body[p] : body[p][f] \in Values \cup {Unset}
          BY <4>2
        <5>3. rows' = [f \in Fields |-> IF f \in DOMAIN body[p] THEN body[p][f] ELSE rows[f]]
          BY <3>1, <4>2, <5>1 DEF PatchWrites
        <5>4. accepted' = rows'
          BY <3>1, <4>2, <5>3
        <5> QED
          BY <5>2, <5>3, <5>4 DEF Stored
      <4> QED
        BY <4>1, <4>2
    <3> QED
      BY <3>3, <3>4, <3>5, <3>6
  <2>3. CASE LoseKey \/ UNCHANGED settingsVars
    BY <2>3 DEF LoseKey, settingsVars
  <2> QED
    BY <2>1, <2>2, <2>3 DEF SettingsNext
<1>3. ComposeInv => SettingsCompose
  <2> SUFFICES ASSUME ComposeInv
               PROVE  SettingsCompose
    OBVIOUS
  <2>1. \A f \in Fields \ fromEnv : f # "api_key" \/ ~lostKey => InForce(f) = accepted[f]
    BY DEF InForce, Decrypted
  <2>2. ASSUME NEW f \in Connection
        PROVE  InForce(f) # Unset <=>
                 f \in fromEnv \/ (accepted[f] # Unset /\ ~(f = "api_key" /\ lostKey))
    BY DEF InForce, Decrypted, Unset
  <2> QED
    BY <2>1, <2>2 DEF SettingsCompose, Connected
<1> QED
  BY <1>1, <1>2, <1>3, PTL DEF SettingsSpec

---------------------------------------------------------------------------
(* Backups                                                                 *)

\* The numbers (days or starts) of the copies of a kind that were begun.
Begun(kind) == {n \in Nat : <<kind, n>> \in begun}

\* Every file is of a copy that was begun, the copy that is being made again is not among
\* the finished ones, and every finished one is there until it has `keep` newer.
HeldInv ==
    /\ day \in Nat /\ startCount \in Nat
    /\ IsFiniteSet(begun) /\ copied \subseteq Kinds \X Nat
    /\ DOMAIN nightly \subseteq Begun("night")
    /\ DOMAIN premigrate \subseteq Begun("start")
    /\ \A n \in Begun("start") : n <= startCount
    /\ copying = "vacuum" => <<"night", day>> \notin copied
    /\ copying = "copy" => <<"start", startCount>> \notin copied
    /\ \A c \in copied : c \in begun
    /\ BackupsStay

\* The files newer than one file are no more than the copies of the kind begun after it.
LEMMA FewerFilesThanCopies ==
  ASSUME NEW files, NEW kind, DOMAIN files \subseteq Begun(kind), IsFiniteSet(begun),
         NEW n \in Nat
  PROVE  LET after == {h \in DOMAIN files : h > n}
         IN  /\ Cardinality(after) \in Nat /\ Cardinality(Newer(<<kind, n>>)) \in Nat
             /\ Cardinality(after) <= Cardinality(Newer(<<kind, n>>))
<1> DEFINE after == {h \in DOMAIN files : h > n}
           newer == Newer(<<kind, n>>)
           f == [h \in after |-> <<kind, h>>]
<1>1. IsFiniteSet(newer)
  BY FS_Subset DEF Newer
<1>2. \A h \in after : f[h] \in newer
  BY DEF Newer, Begun
<1>3. f \in Injection(after, newer)
  BY <1>2 DEF Injection, IsInjective
<1>4. IsFiniteSet(after) /\ Cardinality(after) <= Cardinality(newer)
  BY <1>1, <1>3, FS_Injection
<1>5. Cardinality(after) \in Nat /\ Cardinality(newer) \in Nat
  BY <1>1, <1>4, FS_CardinalityType
<1> QED
  BY <1>4, <1>5

\* Pruning (_prune_nightly, and the loop of backup_database) leaves a file that has fewer
\* than `keep` newer copies as it is.
LEMMA NewestKeeps ==
  ASSUME NEW files, NEW kind, DOMAIN files \subseteq Begun(kind), IsFiniteSet(begun),
         NEW keep \in Nat, NEW n \in DOMAIN files,
         Cardinality(Newer(<<kind, n>>)) < keep
  PROVE  /\ n \in DOMAIN Newest(files, keep)
         /\ Newest(files, keep)[n] = files[n]
<1>1. n \in Nat
  BY DEF Begun
<1>2. Cardinality({h \in DOMAIN files : h > n}) < keep
  BY <1>1, FewerFilesThanCopies
<1> QED
  BY <1>2 DEF Newest

\* A copy that is begun later does not make room for an earlier one.
LEMMA NewerGrows ==
  ASSUME IsFiniteSet(begun), NEW c, NEW x, begun' = begun \cup {x}
  PROVE  /\ IsFiniteSet(begun')
         /\ Cardinality(Newer(c)) \in Nat /\ Cardinality(Newer(c)') \in Nat
         /\ Cardinality(Newer(c)) <= Cardinality(Newer(c)')
<1>1. IsFiniteSet(begun')
  BY FS_AddElement
<1>2. IsFiniteSet(Newer(c)')
  BY <1>1, FS_Subset DEF Newer
<1>3. Newer(c) \in SUBSET (Newer(c)')
  BY DEF Newer
<1>4. IsFiniteSet(Newer(c)) /\ Cardinality(Newer(c)) <= Cardinality(Newer(c)')
  BY <1>2, <1>3, FS_Subset
<1> QED
  BY <1>1, <1>2, <1>4, FS_CardinalityType

\* A step that begins no copy and leaves a finished copy's file as it is keeps it held.
HeldAs(c, keep, files, after) ==
    Held(files, c) /\ Cardinality(Newer(c)) < keep => Held(after, c)

\* Every step of the nightly run and of a start keeps HeldInv.
LEMMA BackupStep == HeldInv /\ [BackupNext]_backupVars => HeldInv'
<1> SUFFICES ASSUME HeldInv, [BackupNext]_backupVars
             PROVE  HeldInv'
  OBVIOUS
<1>1. ASSUME NEW c \in copied
      PROVE  /\ c = <<c[1], c[2]>> /\ c[1] \in Kinds /\ c[2] \in Nat
             /\ c[1] = "night" => (Cardinality(Newer(c)) < KeepNightly => Held(nightly, c))
             /\ c[1] = "start" => (Cardinality(Newer(c)) < Keep => Held(premigrate, c))
  BY DEF HeldInv, BackupsStay, Kinds
<1>2. CASE NightTick \/ NextDay \/ UNCHANGED backupVars
  <2>1. UNCHANGED <<startCount, nightly, premigrate, copied, begun>> /\ day' \in Nat
    BY <1>2 DEF NightTick, NextDay, backupVars, HeldInv
  <2>2. copying' \notin {"vacuum", "copy"} \/ UNCHANGED <<copying, day>>
    BY <1>2 DEF NightTick, NextDay, backupVars
  <2> QED
    BY <2>1, <2>2 DEF HeldInv, Begun, BackupsStay, Newer, Held
<1>3. CASE UnlinkToday
  <2>1. /\ copying' = "vacuum" /\ UNCHANGED <<day, startCount, premigrate, begun>>
        /\ nightly' = [d \in DOMAIN nightly \ {day} |-> nightly[d]]
        /\ copied' = copied \ {<<"night", day>>}
    BY <1>3 DEF UnlinkToday
  <2>2. ASSUME NEW c \in copied'
        PROVE  IF c[1] = "night" THEN Cardinality(Newer(c)) < KeepNightly => Held(nightly', c)
                                 ELSE Cardinality(Newer(c)) < Keep => Held(premigrate, c)
    <3>1. c \in copied /\ (c[1] = "night" => c[2] # day)
      BY <1>1, <2>1
    <3> QED
      BY <1>1, <2>1, <3>1 DEF Held, Kinds
  <2>3. BackupsStay'
    BY <2>1, <2>2 DEF BackupsStay, Newer, Held
  <2> QED
    BY <2>1, <2>3 DEF HeldInv, Begun
<1>4. ASSUME NEW x, x \in Kinds \X Nat, x \notin copied, begun' = begun \cup {x},
             \/ (x[1] = "night" /\ premigrate' = premigrate /\ x[2] = day)
             \/ (x[1] = "start" /\ nightly' = nightly /\ x[2] = startCount),
             nightly' \in {nightly, With(nightly, day, TRUE), With(nightly, day, FALSE)},
             premigrate' \in {premigrate, With(premigrate, startCount, TRUE),
                              With(premigrate, startCount, FALSE)},
             NEW c \in copied
      PROVE  IF c[1] = "night" THEN Cardinality(Newer(c)') < KeepNightly => Held(nightly', c)
                               ELSE Cardinality(Newer(c)') < Keep => Held(premigrate', c)
  <2>1. /\ Cardinality(Newer(c)) \in Nat /\ Cardinality(Newer(c)') \in Nat
        /\ Cardinality(Newer(c)) <= Cardinality(Newer(c)')
    BY <1>4, NewerGrows DEF HeldInv
  <2>2. c # x /\ x = <<x[1], x[2]>>
    BY <1>4
  <2>3. c[1] = "night" /\ Held(nightly, c) => Held(nightly', c)
    BY <1>1, <1>4, <2>2 DEF Held, With
  <2>4. c[1] = "start" /\ Held(premigrate, c) => Held(premigrate', c)
    BY <1>1, <1>4, <2>2 DEF Held, With
  <2>5. Cardinality(Newer(c)') < KeepNightly => Cardinality(Newer(c)) < KeepNightly
    BY <2>1, BackupAssumption
  <2>6. Cardinality(Newer(c)') < Keep => Cardinality(Newer(c)) < Keep
    BY <2>1, BackupAssumption
  <2> QED
    BY <1>1, <2>3, <2>4, <2>5, <2>6 DEF Kinds
<1>5. CASE VacuumInto
  <2> DEFINE x == <<"night", day>>
  <2>1. /\ begun' = begun \cup {x} /\ x \notin copied /\ x \in Kinds \X Nat
        /\ UNCHANGED <<day, startCount, premigrate>> /\ copying' \in {"prune", "no"}
        /\ nightly' \in {nightly, With(nightly, day, TRUE), With(nightly, day, FALSE)}
        /\ copied' \subseteq copied \cup {x}
        /\ x \in copied' => nightly' = With(nightly, day, TRUE)
    BY <1>5 DEF VacuumInto, HeldInv, Kinds
  <2>2. IsFiniteSet(begun')
    BY <2>1, FS_AddElement DEF HeldInv
  <2>3. DOMAIN nightly' \subseteq Begun("night")' /\ DOMAIN premigrate' \subseteq Begun("start")'
    BY <2>1 DEF HeldInv, Begun, With
  <2>4. \A n \in Begun("start")' : n <= startCount'
    <3>1. \A n \in Nat : <<"start", n>> \in begun' => <<"start", n>> \in begun \/ n = startCount
      BY <2>1
    <3>2. \A n \in Begun("start")' : n \in Begun("start") \/ n = startCount
      BY <3>1 DEF Begun
    <3>3. startCount \in Nat /\ \A n \in Begun("start") : n \in Nat /\ n <= startCount
      BY DEF HeldInv, Begun
    <3>4. startCount' = startCount
      BY <1>5 DEF VacuumInto
    <3> QED
      BY <3>2, <3>3, <3>4
  <2>5. ASSUME NEW c \in copied'
        PROVE  IF c[1] = "night" THEN Cardinality(Newer(c)') < KeepNightly => Held(nightly', c)
                                 ELSE Cardinality(Newer(c)') < Keep => Held(premigrate', c)
    <3>1. CASE c = x
      BY <2>1, <2>5, <3>1 DEF Held, With
    <3>2. CASE c # x
      <4>1. c \in copied
        BY <2>1, <3>2
      <4> HIDE DEF x
      <4>2. x[1] = "night" /\ x[2] = day
        BY DEF x
      <4> QED
        BY <1>4, <2>1, <4>1, <4>2
    <3> QED
      BY <3>1, <3>2
  <2>6. BackupsStay'
    BY <2>5 DEF BackupsStay, Held
  <2> QED
    BY <2>1, <2>2, <2>3, <2>4, <2>6 DEF HeldInv
<1>6. CASE PruneNightly
  <2>1. /\ nightly' = Newest(nightly, KeepNightly) /\ copying' = "no"
        /\ UNCHANGED <<day, startCount, premigrate, copied, begun>>
    BY <1>6 DEF PruneNightly
  <2>2. DOMAIN nightly' \subseteq DOMAIN nightly
    BY <2>1 DEF Newest
  <2>3. ASSUME NEW c \in copied, c[1] = "night", Cardinality(Newer(c)) < KeepNightly
        PROVE  Held(nightly', c)
    <3>1. Held(nightly, c) /\ c = <<"night", c[2]>>
      BY <1>1, <2>3
    <3>2. PICK n : c = <<"night", n>> /\ n = c[2]
      BY <3>1
    <3>3. n \in DOMAIN nightly /\ Cardinality(Newer(<<"night", n>>)) < KeepNightly
      BY <2>3, <3>1, <3>2 DEF Held
    <3>4. n \in DOMAIN Newest(nightly, KeepNightly) /\ Newest(nightly, KeepNightly)[n] = nightly[n]
      BY <3>3, NewestKeeps, BackupAssumption DEF HeldInv
    <3> QED
      BY <2>1, <3>1, <3>2, <3>4 DEF Held
  <2>4. BackupsStay'
    BY <1>1, <2>1, <2>3 DEF BackupsStay, Newer, Held, Kinds
  <2> QED
    BY <2>1, <2>2, <2>4 DEF HeldInv, Begun
<1>7. CASE StartContainer
  <2>1. /\ startCount' = startCount + 1 /\ copying' = "copy"
        /\ UNCHANGED <<day, premigrate, copied>>
    BY <1>7 DEF StartContainer
  <2>2. ASSUME NEW c \in copied
        PROVE  c # <<"start", startCount + 1>>
    BY <2>2 DEF HeldInv, Begun, Kinds
  <2>3. \/ UNCHANGED <<nightly, begun>>
        \/ /\ begun' = begun \cup {<<"night", day>>} /\ <<"night", day>> \notin copied
           /\ nightly' \in {nightly, With(nightly, day, FALSE)}
    BY <1>7 DEF StartContainer, HeldInv
  <2>4. IsFiniteSet(begun') /\ \A c \in copied : c \in begun'
    BY <2>3, FS_AddElement DEF HeldInv
  <2>5. DOMAIN nightly' \subseteq Begun("night")' /\ DOMAIN premigrate' \subseteq Begun("start")'
    BY <2>1, <2>3 DEF HeldInv, Begun, With
  <2>6. \A n \in Begun("start")' : n <= startCount'
    <3>0. begun' = begun \/ begun' = begun \cup {<<"night", day>>}
      BY <2>3
    <3>1. \A n \in Nat : <<"start", n>> \in begun' => <<"start", n>> \in begun
      BY <3>0
    <3>2. Begun("start")' \subseteq Begun("start")
      BY <3>1 DEF Begun
    <3>3. \A n \in Begun("start") : n \in Nat /\ n <= startCount
      BY DEF HeldInv, Begun
    <3> QED
      BY <2>1, <3>2, <3>3 DEF HeldInv
  <2>7. ASSUME NEW c \in copied
        PROVE  IF c[1] = "night" THEN Cardinality(Newer(c)') < KeepNightly => Held(nightly', c)
                                 ELSE Cardinality(Newer(c)') < Keep => Held(premigrate', c)
    <3>1. CASE UNCHANGED <<nightly, begun>>
      BY <1>1, <2>1, <3>1 DEF Newer, Kinds
    <3>2. CASE begun' = begun \cup {<<"night", day>>} /\ <<"night", day>> \notin copied
      <4> DEFINE x == <<"night", day>>
      <4>1. /\ x \in Kinds \X Nat /\ x[1] = "night" /\ x[2] = day /\ x \notin copied
            /\ begun' = begun \cup {x}
        BY <3>2 DEF HeldInv, Kinds
      <4>2. nightly' \in {nightly, With(nightly, day, TRUE), With(nightly, day, FALSE)}
        BY <2>3
      <4> HIDE DEF x
      <4> QED
        BY <1>4, <2>1, <4>1, <4>2
    <3> QED
      BY <2>3, <3>1, <3>2
  <2>8. BackupsStay'
    BY <2>1, <2>7 DEF BackupsStay, Held
  <2>9. startCount' \in Nat /\ day' \in Nat /\ copied' \subseteq Kinds \X Nat
    BY <2>1 DEF HeldInv
  <2> QED
    BY <2>1, <2>2, <2>4, <2>5, <2>6, <2>8, <2>9 DEF HeldInv
<1>8. CASE CopyDatabase
  <2> DEFINE x == <<"start", startCount>>
  <2>1. /\ begun' = begun \cup {x} /\ x \notin copied /\ x \in Kinds \X Nat
        /\ UNCHANGED <<day, startCount, nightly>> /\ copying' \in {"prune starts", "no"}
        /\ premigrate' \in {premigrate, With(premigrate, startCount, TRUE),
                            With(premigrate, startCount, FALSE)}
        /\ copied' \subseteq copied \cup {x}
        /\ x \in copied' => premigrate' = With(premigrate, startCount, TRUE)
    BY <1>8 DEF CopyDatabase, HeldInv, Kinds
  <2>2. IsFiniteSet(begun')
    BY <2>1, FS_AddElement DEF HeldInv
  <2>3. DOMAIN nightly' \subseteq Begun("night")' /\ DOMAIN premigrate' \subseteq Begun("start")'
    BY <2>1 DEF HeldInv, Begun, With
  <2>4. \A n \in Begun("start")' : n <= startCount'
    <3>1. \A n \in Nat : <<"start", n>> \in begun' => <<"start", n>> \in begun \/ n = startCount
      BY <2>1
    <3>2. \A n \in Begun("start")' : n \in Begun("start") \/ n = startCount
      BY <3>1 DEF Begun
    <3>3. startCount \in Nat /\ \A n \in Begun("start") : n \in Nat /\ n <= startCount
      BY DEF HeldInv, Begun
    <3>4. startCount' = startCount
      BY <1>8 DEF CopyDatabase
    <3> QED
      BY <3>2, <3>3, <3>4
  <2>5. ASSUME NEW c \in copied'
        PROVE  IF c[1] = "night" THEN Cardinality(Newer(c)') < KeepNightly => Held(nightly', c)
                                 ELSE Cardinality(Newer(c)') < Keep => Held(premigrate', c)
    <3>1. CASE c = x
      BY <2>1, <2>5, <3>1 DEF Held, With
    <3>2. CASE c # x
      <4>1. c \in copied
        BY <2>1, <3>2
      <4> HIDE DEF x
      <4>2. x[1] = "start" /\ x[2] = startCount
        BY DEF x
      <4> QED
        BY <1>4, <2>1, <4>1, <4>2
    <3> QED
      BY <3>1, <3>2
  <2>6. BackupsStay'
    BY <2>5 DEF BackupsStay, Held
  <2> QED
    BY <2>1, <2>2, <2>3, <2>4, <2>6 DEF HeldInv
<1>9. CASE PruneStarts
  <2>1. /\ premigrate' = Newest(premigrate, Keep) /\ copying' = "no"
        /\ UNCHANGED <<day, startCount, nightly, copied, begun>>
    BY <1>9 DEF PruneStarts
  <2>2. DOMAIN premigrate' \subseteq DOMAIN premigrate
    BY <2>1 DEF Newest
  <2>3. ASSUME NEW c \in copied, c[1] = "start", Cardinality(Newer(c)) < Keep
        PROVE  Held(premigrate', c)
    <3>1. Held(premigrate, c) /\ c = <<"start", c[2]>>
      BY <1>1, <2>3
    <3>2. PICK n : c = <<"start", n>> /\ n = c[2]
      BY <3>1
    <3>3. n \in DOMAIN premigrate /\ Cardinality(Newer(<<"start", n>>)) < Keep
      BY <2>3, <3>1, <3>2 DEF Held
    <3>4. n \in DOMAIN Newest(premigrate, Keep) /\ Newest(premigrate, Keep)[n] = premigrate[n]
      BY <3>3, NewestKeeps, BackupAssumption DEF HeldInv
    <3> QED
      BY <2>1, <3>1, <3>2, <3>4 DEF Held
  <2>4. BackupsStay'
    BY <1>1, <2>1, <2>3 DEF BackupsStay, Newer, Held, Kinds
  <2> QED
    BY <2>1, <2>2, <2>4 DEF HeldInv, Begun
<1> QED
  BY <1>2, <1>3, <1>5, <1>6, <1>7, <1>8, <1>9 DEF BackupNext

\* "keep only the newest `keep` of them" (backup_database, nightly_backup): for any numbers
\* to keep, days and starts, a finished copy stays until that many newer ones were begun.
THEOREM BackupsAreKept == BackupSpec => []BackupsStay
<1>1. BackupInit => HeldInv
  BY FS_EmptySet DEF BackupInit, HeldInv, Begun, BackupsStay
<1>2. HeldInv => BackupsStay
  BY DEF HeldInv
<1> QED
  BY <1>1, <1>2, BackupStep, PTL DEF BackupSpec

---------------------------------------------------------------------------
(* The queue page                                                          *)

Event == Shown \cup {"progress"}

\* The row's status is on its way to the page: it is the last status in the queue, or none
\* is there and the page has it, gets it, or has asked for it.
OnItsWay ==
    \/ \E i \in 1..Len(queue) :
          queue[i] = stored /\ \A j \in 1..Len(queue) : j > i => queue[j] = "progress"
    \/ /\ \A i \in 1..Len(queue) : queue[i] = "progress"
       /\ \/ fetch \in {"asked", stored}
          \/ fetch = Nothing /\ page = stored

ViewInv ==
    /\ stored \in Shown \cup {NoJobYet} /\ (owed # Nothing => owed = stored /\ stored \in Shown)
    /\ queue \in Seq(Event) /\ missed \in BOOLEAN /\ link \in BOOLEAN
    /\ ~link => queue = <<>>
    /\ link /\ ~missed /\ owed = Nothing => stored = "queued" \/ OnItsWay

\* An event that is published, and fits, is the last in the queue.
LEMMA PublishedIsLast ==
  ASSUME NEW event \in Event, link, queue \in Seq(Event), Published(event), missed \in BOOLEAN
  PROVE  /\ queue' \in Seq(Event) /\ missed' \in BOOLEAN /\ (missed => missed')
         /\ event # "progress" /\ ~missed' =>
               /\ Len(queue') = Len(queue) + 1 /\ queue'[Len(queue')] = event
         /\ event = "progress" =>
               /\ missed' = missed
               /\ \/ queue' = queue
                  \/ /\ Len(queue') = Len(queue) + 1 /\ queue'[Len(queue')] = event
                     /\ \A i \in 1..Len(queue) : queue'[i] = queue[i]
<1>1. CASE Fits
  <2>1. queue' = Append(queue, event) /\ missed' = missed
    BY <1>1 DEF Published
  <2> QED
    BY <2>1
<1>2. CASE ~Fits
  <2>1. queue' = queue /\ missed' = (missed \/ event # "progress")
    BY <1>2 DEF Published
  <2> QED
    BY <2>1
<1> QED
  BY <1>1, <1>2

LEMMA ViewStep == ViewInv /\ [ViewNext]_viewVars => ViewInv'
<1> SUFFICES ASSUME ViewInv, [ViewNext]_viewVars
             PROVE  ViewInv'
  OBVIOUS
<1> USE DEF ViewInv
<1>0. <<>> \in Seq(Event)
  OBVIOUS
<1>1. CASE CommitSilently
  BY <1>1 DEF CommitSilently, Shown
<1>2. CASE CommitStatus
  <2>1. PICK move \in Moves : stored' = move[2] /\ owed' = move[2]
    BY <1>2 DEF CommitStatus
  <2>2. move[2] \in Shown /\ move[2] # Nothing
    BY DEF Moves, Shown, Ended, Nothing
  <2>3. UNCHANGED <<link, queue, missed>>
    BY <1>2 DEF CommitStatus
  <2> QED
    BY <2>1, <2>2, <2>3
<1>3. CASE PublishStatus
  <2>1. /\ owed # Nothing /\ owed' = Nothing /\ owed = stored /\ Published(owed)
        /\ UNCHANGED <<stored, link, page, fetch>>
    BY <1>3 DEF PublishStatus
  <2>2. CASE link
    <3>1. stored \in Event /\ stored # "progress"
      BY <2>1 DEF Event, Shown, Ended, Nothing, NoJobYet
    <3>2. queue' \in Seq(Event) /\ missed' \in BOOLEAN
      BY <2>1, <2>2, <3>1, PublishedIsLast
    <3>3. ~missed' => OnItsWay'
      BY <2>1, <2>2, <3>1, <3>2, PublishedIsLast DEF OnItsWay
    <3> QED
      BY <2>1, <2>2, <3>2, <3>3
  <2>3. CASE ~link
    BY <2>1, <2>3 DEF Published
  <2> QED
    BY <2>2, <2>3
<1>4. CASE PublishProgress
  <2>1. /\ Published("progress") /\ UNCHANGED <<stored, owed, link, page, fetch>>
    BY <1>4 DEF PublishProgress
  <2>2. CASE link
    <3>1. "progress" \in Event
      BY DEF Event
    <3>2. queue' \in Seq(Event) /\ missed' = missed
      BY <2>1, <2>2, <3>1, PublishedIsLast
    <3>3. CASE queue' = queue
      BY <2>1, <3>2, <3>3 DEF OnItsWay
    <3>4. CASE /\ Len(queue') = Len(queue) + 1 /\ queue'[Len(queue')] = "progress"
               /\ \A i \in 1..Len(queue) : queue'[i] = queue[i]
      <4>1. OnItsWay => OnItsWay'
        <5>1. ASSUME NEW i \in 1..Len(queue), queue[i] = stored,
                     \A j \in 1..Len(queue) : j > i => queue[j] = "progress"
              PROVE  OnItsWay'
          <6>1. i \in 1..Len(queue') /\ queue'[i] = stored'
            BY <2>1, <3>4, <5>1
          <6>2. ASSUME NEW j \in 1..Len(queue'), j > i
                PROVE  queue'[j] = "progress"
            BY <3>4, <5>1, <6>2
          <6> QED
            BY <6>1, <6>2 DEF OnItsWay
        <5>2. ASSUME \A i \in 1..Len(queue) : queue[i] = "progress"
              PROVE  \A i \in 1..Len(queue') : queue'[i] = "progress"
          BY <3>4, <5>2
        <5> QED
          BY <2>1, <5>1, <5>2 DEF OnItsWay
      <4> QED
        BY <2>1, <2>2, <3>2, <4>1
    <3> QED
      BY <2>1, <2>2, <3>1, <3>3, <3>4, PublishedIsLast
  <2>3. CASE ~link
    BY <2>1, <2>3 DEF Published
  <2> QED
    BY <2>2, <2>3
<1>5. CASE StopHub
  BY <1>0, <1>5 DEF StopHub, Shown
<1>6. CASE AnswerFetch
  BY <1>6 DEF AnswerFetch, OnItsWay
<1>7. CASE OpenStream
  <2>1. /\ ~link /\ queue' = queue /\ (missed' \/ fetch' = "asked") /\ link' = TRUE
        /\ missed' \in BOOLEAN /\ UNCHANGED <<stored, owed, page>>
    BY <1>7 DEF OpenStream, OnOpen, Refetch
  <2>2. \A i \in 1..Len(queue') : queue'[i] = "progress"
    BY <2>1
  <2> QED
    BY <1>0, <2>1, <2>2 DEF OnItsWay
<1>8. CASE DropStream
  BY <1>0, <1>8 DEF DropStream
<1>9. CASE MergeEvent
  <2>1. /\ queue # <<>> /\ queue' = Tail(queue) /\ UNCHANGED <<stored, owed, link>>
    BY <1>9 DEF MergeEvent
  <2>2. /\ Len(queue') = Len(queue) - 1 /\ Len(queue) \in Nat \ {0} /\ queue' \in Seq(Event)
        /\ \A i \in 1..Len(queue') : queue'[i] = queue[i + 1]
        /\ Head(queue) = queue[1]
    BY <2>1
  <2>3. /\ missed' \in BOOLEAN /\ (~missed' => ~missed)
        /\ fetch' = "asked" \/ fetch' = fetch
        /\ page' = page \/ page' = queue[1]
        /\ queue[1] = "progress" => fetch' = "asked" \/ UNCHANGED <<page, fetch>>
        /\ queue[1] # "progress" /\ ~missed' =>
              fetch' = "asked" \/ (fetch' = Nothing /\ page' = queue[1])
    <3>1. CASE page \in {Loading, NoJobYet}
      BY <1>9, <2>2, <3>1 DEF MergeEvent, Refetch, Answered, Loading, NoJobYet, Nothing
    <3>2. CASE page \notin {Loading, NoJobYet}
      BY <1>9, <2>2, <3>2 DEF MergeEvent, Answered
    <3> QED
      BY <3>1, <3>2
  <2>4. ~missed' => ~missed
    BY <2>3
  <2>5. ASSUME OnItsWay, ~missed'
        PROVE  OnItsWay'
    <3>1. ASSUME NEW i \in 1..Len(queue), i # 1, queue[i] = stored,
                 \A j \in 1..Len(queue) : j > i => queue[j] = "progress"
          PROVE  OnItsWay'
      <4>1. i - 1 \in 1..Len(queue') /\ queue'[i - 1] = stored'
        BY <2>1, <2>2, <3>1
      <4>2. ASSUME NEW j \in 1..Len(queue'), j > i - 1
            PROVE  queue'[j] = "progress"
        <5>1. j + 1 \in 1..Len(queue) /\ j + 1 > i
          BY <2>2, <4>2
        <5> QED
          BY <2>2, <3>1, <5>1
      <4> QED
        BY <4>1, <4>2 DEF OnItsWay
    <3>2. ASSUME queue[1] = stored, \A j \in 1..Len(queue) : j > 1 => queue[j] = "progress"
          PROVE  OnItsWay'
      <4>1. \A i \in 1..Len(queue') : queue'[i] = "progress"
        BY <2>2, <3>2
      <4>2. stored # "progress"
        BY DEF Shown, Ended, NoJobYet
      <4>3. fetch' = "asked" \/ (fetch' = Nothing /\ page' = stored')
        BY <2>1, <2>3, <2>5, <3>2, <4>2
      <4> QED
        BY <2>1, <4>1, <4>3 DEF OnItsWay
    <3>3. ASSUME \A i \in 1..Len(queue) : queue[i] = "progress",
                 fetch \in {"asked", stored} \/ (fetch = Nothing /\ page = stored)
          PROVE  OnItsWay'
      <4>1. \A i \in 1..Len(queue') : queue'[i] = "progress"
        BY <2>2, <3>3
      <4>2. queue[1] = "progress"
        BY <2>2, <3>3
      <4> QED
        BY <2>1, <2>3, <3>3, <4>1, <4>2 DEF OnItsWay
    <3> QED
      BY <2>5, <3>1, <3>2, <3>3 DEF OnItsWay
  <2> QED
    BY <2>1, <2>2, <2>3, <2>4, <2>5
<1>10. CASE ReceiveFetch
  <2>1. /\ Answered /\ page' = fetch /\ fetch' = Nothing
        /\ UNCHANGED <<stored, owed, link, queue, missed>>
    BY <1>10 DEF ReceiveFetch
  <2> QED
    BY <2>1 DEF OnItsWay, Answered
<1>12. CASE FailFetch
  BY <1>12 DEF FailFetch
<1>11. CASE UNCHANGED viewVars
  BY <1>11 DEF viewVars, OnItsWay
<1> QED
  BY <1>1, <1>2, <1>3, <1>4, <1>5, <1>6, <1>7, <1>8, <1>9, <1>10, <1>11, <1>12
     DEF ViewNext

\* "Every (re)connect refetches, so nothing missed while disconnected stays stale"
\* (useJobEvents), but where a connect or an event joins the page's first fetch: for a queue
\* of any size, and any number of events, fetches and streams.
THEOREM PageCatchesUp == ViewSpec => []PageIsCurrent
<1>1. ViewInit => ViewInv
  <2>1. <<>> \in Seq(Event)
    OBVIOUS
  <2> QED
    BY <2>1 DEF ViewInit, ViewInv
<1>2. ViewInv => PageIsCurrent
  BY DEF ViewInv, PageIsCurrent, OnItsWay, Nothing, Shown, Ended, NoJobYet
<1> QED
  BY <1>1, <1>2, ViewStep, PTL DEF ViewSpec

---------------------------------------------------------------------------
(* The first rows of a list                                                *)

\* The natural numbers are well ordered: the library's fact, for sets.
LEMMA LeastOf ==
  ASSUME NEW T \in SUBSET Nat, T # {}
  PROVE  \E least \in T : \A n \in T : least <= n
<1>1. IsWellFoundedOn({pair \in Nat \X Nat : pair[1] < pair[2]}, Nat)
  BY NatLessThanWellFounded DEF OpToRel
<1>2. PICK least \in T : \A n \in T : <<n, least>> \notin {pair \in Nat \X Nat : pair[1] < pair[2]}
  BY <1>1, WFMin
<1>3. ASSUME NEW n \in T
      PROVE  least <= n
  <2>1. <<n, least>> \in Nat \X Nat /\ n \in Nat /\ least \in Nat
    OBVIOUS
  <2>2. ~(n < least)
    BY <1>2, <2>1
  <2> QED
    BY <2>1, <2>2
<1> QED
  BY <1>3

\* So a set of them that has a bound has a greatest one.
LEMMA GreatestOf ==
  ASSUME NEW T \in SUBSET Nat, T # {}, NEW bound \in Nat, \A n \in T : n <= bound
  PROVE  \E greatest \in T : \A n \in T : n <= greatest
<1> DEFINE bounds == {b \in Nat : \A n \in T : n <= b}
<1>1. PICK b \in bounds : \A c \in bounds : b <= c
  <2>1. bounds \in SUBSET Nat /\ bounds # {}
    OBVIOUS
  <2> HIDE DEF bounds
  <2> QED
    BY <2>1, LeastOf
<1>2. CASE b \in T
  BY <1>2
<1>3. CASE b \notin T
  <2>1. b \in Nat /\ \A n \in T : n \in Nat /\ n < b
    BY <1>3
  <2>2. PICK n \in T : TRUE
    OBVIOUS
  <2>3. b - 1 \in Nat /\ \A m \in T : m <= b - 1
    BY <2>1, <2>2
  <2>4. b <= b - 1
    BY <1>1, <2>3
  <2> QED
    BY <2>1, <2>4
<1> QED
  BY <1>2, <1>3

\* The rank of an element, and the first `k` elements (Listed).
Below(S, n)    == {m \in S : m < n}
FirstOf(S, k) == {n \in S : Cardinality(Below(S, n)) < k}

\* What is below a number is finite.
LEMMA BelowIsFinite ==
  ASSUME NEW S \in SUBSET Nat, NEW n \in Nat
  PROVE  IsFiniteSet(Below(S, n)) /\ Cardinality(Below(S, n)) \in Nat
<1>1. \A m \in Below(S, n) : m \in Nat /\ m < n
  BY DEF Below
<1>2. Below(S, n) \in SUBSET Nat /\ \A m \in Below(S, n) : m <= n
  <2> HIDE DEF Below
  <2> QED
    BY <1>1
<1>3. IsFiniteSet(Below(S, n))
  BY <1>2, FS_BoundedSetOfNaturals
<1> QED
  BY <1>3, FS_CardinalityType

\* An element that is not one of the first `k` has exactly `k` of them before it.
LEMMA KBefore ==
  ASSUME NEW S \in SUBSET Nat, NEW k \in Nat \ {0}, NEW t \in S, t \notin FirstOf(S, k)
  PROVE  Cardinality({m \in FirstOf(S, k) : m < t}) = k
<1> DEFINE first == {m \in FirstOf(S, k) : m < t}
           late  == {m \in S : m <= t /\ m \notin FirstOf(S, k)}
<1>1. PICK l \in late : \A m \in late : l <= m
  <2>1. \A m \in late : m \in Nat
    OBVIOUS
  <2>2. t \in late
    OBVIOUS
  <2> HIDE DEF late
  <2>3. late \in SUBSET Nat /\ late # {}
    BY <2>1, <2>2
  <2> QED
    BY <2>3, LeastOf
<1>2. l \in S /\ l \in Nat /\ l <= t /\ Cardinality(Below(S, l)) \in Nat
      /\ Cardinality(Below(S, l)) >= k
  <2>1. l \in S /\ l \in Nat /\ l <= t /\ l \notin FirstOf(S, k)
    OBVIOUS
  <2> QED
    BY <2>1, BelowIsFinite DEF FirstOf
<1>3. first = Below(S, l)
  <2>1. ASSUME NEW m \in S, m < l
        PROVE  m \in first
    BY <1>1, <1>2, <2>1
  <2>2. ASSUME NEW m \in first
        PROVE  m < l
    <3>1. m \in S /\ m \in Nat /\ Cardinality(Below(S, m)) < k
      BY DEF FirstOf
    <3>2. ASSUME l <= m
          PROVE  FALSE
      <4>1. Below(S, l) \in SUBSET Below(S, m)
        <5>1. ASSUME NEW x \in S, x < l
              PROVE  x < m
          <6>1. x \in Nat /\ l \in Nat /\ m \in Nat
            BY <1>2, <3>1
          <6> QED
            BY <3>2, <5>1, <6>1
        <5> QED
          BY <5>1 DEF Below
      <4>2. IsFiniteSet(Below(S, m)) /\ Cardinality(Below(S, m)) \in Nat
        BY <3>1, BelowIsFinite
      <4>3. Cardinality(Below(S, l)) <= Cardinality(Below(S, m))
        BY <4>1, <4>2, FS_Subset
      <4> QED
        BY <1>2, <3>1, <4>2, <4>3
    <3> QED
      BY <1>2, <3>1, <3>2
  <2>3. first \subseteq S
    BY DEF FirstOf
  <2> HIDE DEF first
  <2> QED
    BY <2>1, <2>2, <2>3 DEF Below
<1>4. Cardinality(first) >= k /\ IsFiniteSet(first) /\ Cardinality(first) \in Nat
  BY <1>2, <1>3, BelowIsFinite
<1>5. Cardinality(first) <= k
  <2>1. first # {}
    BY <1>4, FS_EmptySet
  <2>2. first \in SUBSET Nat /\ \A m \in first : m <= t
    <3>1. \A m \in first : m \in Nat /\ m < t
      BY DEF FirstOf
    <3> HIDE DEF first
    <3> QED
      BY <3>1
  <2>3. PICK g \in first : \A m \in first : m <= g
    <3> HIDE DEF first
    <3> QED
      BY <2>1, <2>2, GreatestOf
  <2>4. g \in S /\ g \in Nat /\ Cardinality(Below(S, g)) < k
    BY <2>3 DEF FirstOf
  <2>5. Below(S, g) = first \ {g}
    <3>1. ASSUME NEW m \in S, m < g
          PROVE  m \in first
      BY <1>2, <1>3, <2>3, <2>4, <3>1 DEF Below
    <3>2. first \subseteq S
      BY DEF FirstOf
    <3> HIDE DEF first
    <3>3. ASSUME NEW m \in first, m # g
          PROVE  m < g
      <4>1. m \in Nat /\ g \in Nat /\ m <= g
        BY <2>2, <2>3
      <4> QED
        BY <3>3, <4>1
    <3>4. ~(g < g)
      BY <2>4
    <3> QED
      BY <3>1, <3>2, <3>3, <3>4 DEF Below
  <2>6. Cardinality(first \ {g}) = Cardinality(first) - 1
    <3> HIDE DEF first
    <3> QED
      BY <1>4, <2>3, FS_RemoveElement
  <2> HIDE DEF first
  <2> QED
    BY <1>4, <2>4, <2>5, <2>6
<1> HIDE DEF first
<1>6. Cardinality(first) = k
  BY <1>4, <1>5
<1> QED
  BY <1>6 DEF first

---------------------------------------------------------------------------
(* The pickers                                                             *)

\* What the app's library was at some second of `first`..`last`.
HeldIn(shelf, first, last) == \E s \in first..last : shelf = library[s]

\* A call that was answered has what the library was since it began; the cache has what it
\* was since the call that filled it began.
PickersInv ==
    /\ calls \in [Readers -> [began : Int, refresh : BOOLEAN, shelf : Shelves,
                              answered : BOOLEAN]]
    /\ cache \in [at : Int, shelf : Shelves]
    /\ library \in Seq(Shelves) /\ clock >= 1
    /\ \A r \in Readers : calls[r] # Idle =>
          /\ calls[r].began \in 1..clock
          /\ calls[r].answered => HeldIn(calls[r].shelf, calls[r].began, clock)
    /\ cache # NoList => cache.at \in 1..clock /\ HeldIn(cache.shelf, cache.at, clock)
    /\ PickerIsRecent

LEMMA BareIsAShelf == Bare \in Shelves
  BY DEF Bare, Shelves

\* A list leaves a title it was asked for out only for `Limit` of them before it.
LEMMA ListedIsRight ==
  ASSUME NEW shelf, NEW missing \in BOOLEAN, NEW matches \in SUBSET Titles
  PROVE  /\ Listed(shelf, missing, matches) \subseteq Asked(shelf, missing, matches)
         /\ \A t \in Asked(shelf, missing, matches) \ Listed(shelf, missing, matches) :
               Cardinality({u \in Listed(shelf, missing, matches) : u < t}) = Limit
<1> DEFINE asked == Asked(shelf, missing, matches)
<1>1. Listed(shelf, missing, matches) = FirstOf(asked, Limit)
  BY DEF Listed, FirstOf, Below
<1>2. asked \in SUBSET Nat /\ Limit \in Nat \ {0}
  BY PickersAssumption DEF Asked
<1>3. FirstOf(asked, Limit) \subseteq asked
  BY DEF FirstOf
<1>4. ASSUME NEW t \in asked, t \notin FirstOf(asked, Limit)
      PROVE  Cardinality({u \in FirstOf(asked, Limit) : u < t}) = Limit
  <2> HIDE DEF asked
  <2> QED
    BY <1>2, <1>4, KBefore
<1> HIDE DEF asked
<1>5. \A t \in asked \ FirstOf(asked, Limit) :
         Cardinality({u \in FirstOf(asked, Limit) : u < t}) = Limit
  BY <1>4
<1> QED
  BY <1>1, <1>3, <1>5 DEF asked

\* A list of what the library was at some second of the answer's time is a recent one.
LEMMA AnswerIsRecent ==
  ASSUME NEW call, NEW shelf, NEW s \in 1..clock, clock \in Nat, library' = library, app' = app,
         shelf = library[s], call.began \in Int,
         s > call.began - CacheTtl, call.refresh => s >= call.began,
         Answer(call, shelf)
  PROVE  PickerIsRecent'
<1>1. PICK missing \in BOOLEAN, matches \in Queries :
        picker' = [began |-> call.began, refresh |-> call.refresh, missing |-> missing,
                   matches |-> matches, ended |-> clock, rows |-> Listed(shelf, missing, matches)]
  BY DEF Answer
<1>2. /\ picker'.ended = clock /\ picker'.began = call.began
      /\ picker'.refresh = call.refresh /\ picker'.missing = missing
      /\ picker'.matches = matches /\ picker'.rows = Listed(shelf, missing, matches)
  BY <1>1
<1> DEFINE asked == Asked(shelf, missing, matches)
           first == Listed(shelf, missing, matches)
<1>3. first \subseteq asked /\ \A t \in asked \ first : Cardinality({u \in first : u < t}) = Limit
  <2>1. matches \in SUBSET Titles
    BY PickersAssumption
  <2> QED
    BY <2>1, ListedIsRight
<1>4. asked = Asked(library[s], missing, matches)'
  BY DEF Asked, Missing
<1>5. /\ s \in 1..picker'.ended /\ s > picker'.began - CacheTtl
      /\ picker'.refresh => s >= picker'.began
  BY <1>2
<1> HIDE DEF asked, first
<1>6. Asked(library[s], picker.missing, picker.matches)' = asked /\ picker'.rows = first
  BY <1>2, <1>4 DEF first, Asked, Missing
<1> QED
  BY <1>3, <1>5, <1>6 DEF PickerIsRecent

\* What a call or the cache holds is as old as it was, when a second has passed.
LEMMA SecondsPass ==
  ASSUME PickersInv, NEW now \in Shelves, library' = Append(library, now), picker' = NoPage,
         UNCHANGED <<cache, calls>>
  PROVE  PickersInv'
<1> USE DEF PickersInv
<1>1. library' \in Seq(Shelves) /\ clock \in Nat /\ clock' = clock + 1
  BY DEF clock
<1>2. \A s \in 1..clock : library'[s] = library[s]
  BY DEF clock
<1>3. ASSUME NEW shelf, NEW first \in 1..clock, HeldIn(shelf, first, clock)
      PROVE  \E s \in first..clock' : shelf = library'[s]
  <2>1. PICK s \in first..clock : shelf = library[s]
    BY <1>3 DEF HeldIn
  <2>2. s \in 1..clock /\ s \in first..clock'
    BY <1>1
  <2> QED
    BY <1>2, <2>1, <2>2
<1>4. clock' >= 1 /\ 1..clock \subseteq 1..clock'
  BY <1>1
<1>5. PickerIsRecent'
  BY DEF PickerIsRecent
<1>6. \A r \in Readers : calls[r] # Idle =>
         /\ calls[r].began \in 1..clock'
         /\ calls[r].answered => \E s \in calls[r].began..clock' : calls[r].shelf = library'[s]
  BY <1>3, <1>4
<1>7. cache # NoList =>
         /\ cache.at \in 1..clock'
         /\ \E s \in cache.at..clock' : cache.shelf = library'[s]
  BY <1>3, <1>4
<1> QED
  BY <1>1, <1>4, <1>5, <1>6, <1>7 DEF HeldIn

LEMMA PickersStep == PickersInv /\ [PickersNext]_pickerVars => PickersInv'
<1> SUFFICES ASSUME PickersInv, [PickersNext]_pickerVars
             PROVE  PickersInv'
  OBVIOUS
<1> USE DEF PickersInv
<1>0. clock \in Nat /\ app' = app
  BY DEF clock, PickersNext, pickerVars
<1>1. CASE AnswerFromCache
  <2>1. UNCHANGED <<library, cache, calls>> /\ clock' = clock
    BY <1>1 DEF AnswerFromCache, clock
  <2>2. cache # NoList /\ clock - cache.at < CacheTtl /\ cache.at \in 1..clock
    BY <1>1 DEF AnswerFromCache, Fresh
  <2>3. PICK s \in cache.at..clock : cache.shelf = library[s]
    BY <2>2 DEF HeldIn
  <2>4. s \in 1..clock /\ s > clock - CacheTtl
    BY <1>0, <2>2, PickersAssumption
  <2> DEFINE call == [began |-> clock, refresh |-> FALSE]
  <2>5. call.began = clock /\ ~call.refresh /\ Answer(call, cache.shelf)
    BY <1>1 DEF AnswerFromCache
  <2> HIDE DEF call
  <2>6. call.began \in Int /\ s > call.began - CacheTtl /\ (call.refresh => s >= call.began)
    BY <1>0, <2>4, <2>5
  <2>7. Answer(call, cache.shelf) /\ library' = library
    BY <2>1, <2>5
  <2> DEFINE shelf == cache.shelf
  <2>8. shelf = library[s] /\ Answer(call, shelf)
    BY <2>3, <2>7
  <2> HIDE DEF shelf
  <2>9. PickerIsRecent'
    BY <1>0, <2>4, <2>6, <2>7, <2>8, AnswerIsRecent
  <2> QED
    BY <1>0, <2>1, <2>9 DEF HeldIn
<1>2. CASE Second
  BY <1>2, SecondsPass DEF Second
<1>3. ASSUME NEW r \in Readers, AskApp(r)
      PROVE  PickersInv'
  <2>1. PICK refresh \in BOOLEAN :
           /\ calls' = [calls EXCEPT ![r] = [Idle EXCEPT !.began = clock, !.refresh = refresh]]
           /\ picker' = NoPage /\ UNCHANGED <<library, cache>>
    BY <1>3 DEF AskApp
  <2>2. clock' = clock /\ PickerIsRecent'
    BY <2>1 DEF clock, PickerIsRecent
  <2> DEFINE call == [Idle EXCEPT !.began = clock, !.refresh = refresh]
  <2>3. /\ call \in [began : Int, refresh : BOOLEAN, shelf : Shelves, answered : BOOLEAN]
        /\ call.began = clock /\ ~call.answered
    <3>1. /\ Idle \in [began : Int, refresh : BOOLEAN, shelf : Shelves,
                       answered : BOOLEAN]
          /\ ~Idle.answered
      BY BareIsAShelf DEF Idle
    <3>2. clock \in Int
      BY <1>0
    <3> HIDE DEF PickersInv
    <3> QED
      BY <3>1, <3>2
  <2>4. calls' = [calls EXCEPT ![r] = call]
    BY <2>1
  <2> HIDE DEF call
  <2>5. /\ calls' \in [Readers -> [began : Int, refresh : BOOLEAN, shelf : Shelves,
                                   answered : BOOLEAN]]
        /\ calls'[r] = call /\ \A q \in Readers : q # r => calls'[q] = calls[q]
    BY <2>3, <2>4
  <2>6. call.began \in 1..clock
    BY <1>0, <2>3
  <2> QED
    BY <2>1, <2>2, <2>3, <2>5, <2>6 DEF HeldIn
<1>4. ASSUME NEW r \in Readers, AppAnswers(r)
      PROVE  PickersInv'
  <2>1. /\ calls' = [calls EXCEPT ![r].answered = TRUE, ![r].shelf = library[clock]]
        /\ calls[r] # Idle
    BY <1>4 DEF AppAnswers
  <2>2. picker' = NoPage /\ UNCHANGED <<library, cache>>
    BY <1>4 DEF AppAnswers
  <2>3. clock' = clock /\ PickerIsRecent'
    BY <2>2 DEF clock, PickerIsRecent
  <2>4. library[clock] \in Shelves /\ clock \in calls[r].began..clock
    BY <1>0, <2>1 DEF clock
  <2>5. /\ calls'[r].began = calls[r].began
        /\ calls'[r].shelf = library[clock]
        /\ \A q \in Readers : q # r => calls'[q] = calls[q]
    BY <2>1
  <2>6. calls' \in [Readers -> [began : Int, refresh : BOOLEAN, shelf : Shelves,
                                answered : BOOLEAN]]
    BY <2>1, <2>4
  <2> QED
    BY <2>1, <2>2, <2>3, <2>4, <2>5, <2>6 DEF HeldIn
<1>5. ASSUME NEW r \in Readers, ReceiveList(r)
      PROVE  PickersInv'
  <2>1. calls[r].answered /\ library' = library /\ clock' = clock
    BY <1>5 DEF ReceiveList, clock
  <2>2. calls[r] # Idle
    BY <2>1 DEF Idle
  <2>3. calls[r].began \in 1..clock
    BY <2>2
  <2>4. PICK s \in calls[r].began..clock : calls[r].shelf = library[s]
    BY <2>1, <2>2 DEF HeldIn
  <2>5. s \in 1..clock /\ s > calls[r].began - CacheTtl /\ s >= calls[r].began
    BY <1>0, <2>3, PickersAssumption
  <2>6. Answer(calls[r], calls[r].shelf)
    BY <1>5 DEF ReceiveList
  <2>7. calls[r].began \in Int
    BY <2>3
  <2>8. PickerIsRecent'
    BY <1>0, <2>1, <2>4, <2>5, <2>6, <2>7, AnswerIsRecent
  <2>9. cache' = [at |-> calls[r].began, shelf |-> calls[r].shelf]
    BY <1>5 DEF ReceiveList, CachedAt
  <2>10. /\ cache' \in [at : Int, shelf : Shelves] /\ cache'.at \in 1..clock
         /\ HeldIn(cache'.shelf, cache'.at, clock)
    BY <2>3, <2>4, <2>9 DEF HeldIn
  <2>11. calls' = [calls EXCEPT ![r] = Idle]
    BY <1>5 DEF ReceiveList
  <2>12. calls' \in [Readers -> [began : Int, refresh : BOOLEAN, shelf : Shelves,
                                 answered : BOOLEAN]]
    BY <2>11, BareIsAShelf DEF Idle
  <2>13. \A q \in Readers : calls'[q] # Idle => calls'[q] = calls[q]
    BY <2>11
  <2> QED
    BY <1>0, <2>1, <2>8, <2>10, <2>12, <2>13 DEF HeldIn
<1>6. ASSUME NEW r \in Readers, CallFails(r)
      PROVE  PickersInv'
  <2>1. calls' = [calls EXCEPT ![r] = Idle] /\ picker' = NoPage /\ UNCHANGED <<library, cache>>
    BY <1>6 DEF CallFails
  <2>2. clock' = clock /\ PickerIsRecent'
    BY <2>1 DEF clock, PickerIsRecent
  <2>3. calls' \in [Readers -> [began : Int, refresh : BOOLEAN, shelf : Shelves,
                                answered : BOOLEAN]]
    BY <2>1, BareIsAShelf DEF Idle
  <2>4. \A q \in Readers : calls'[q] # Idle => calls'[q] = calls[q]
    BY <2>1
  <2> QED
    BY <2>1, <2>2, <2>3, <2>4 DEF HeldIn
<1>7. CASE UNCHANGED pickerVars
  <2>1. UNCHANGED <<app, library, cache, calls, picker>> /\ clock' = clock
    BY <1>7 DEF pickerVars, clock
  <2>2. PickerIsRecent'
    BY <2>1 DEF PickerIsRecent, Asked, Missing
  <2> QED
    BY <2>1, <2>2 DEF HeldIn
<1> QED
  BY <1>1, <1>2, <1>3, <1>4, <1>5, <1>6, <1>7 DEF PickersNext

\* "cached for five minutes; `refresh` re-reads it now" (RadarrClient.movies, ArrService):
\* for any titles, limit and cache time, and any number of calls that overlap.
THEOREM PickersAreRecent == PickersSpec => []PickerIsRecent
<1>1. PickersInit => PickersInv
  <2> SUFFICES ASSUME PickersInit
               PROVE  PickersInv
    OBVIOUS
  <2>1. library \in Seq(Shelves) /\ clock = 1
    BY BareIsAShelf DEF PickersInit, clock
  <2>2. \A r \in Readers : calls[r] = Idle
    BY DEF PickersInit
  <2> QED
    BY <2>1, <2>2, BareIsAShelf DEF PickersInit, PickersInv, PickerIsRecent, Idle, NoList
<1>2. PickersInv => PickerIsRecent
  BY DEF PickersInv
<1> QED
  BY <1>1, <1>2, PickersStep, PTL DEF PickersSpec

---------------------------------------------------------------------------
(* A preview and what comes of it                                          *)

\* The target of an item, by the video it was inspected as.
TargetOf(item) ==
    LET ref == item.ref
    IN  CASE media.type = "movie" -> [type |-> "movie", title |-> media.title, year |-> media.year]
          [] media.type = "other" -> [type |-> "other", video |-> item.video]
          [] media.type = "tv" /\ media.numbering = "daily" /\ ref.airYear # Absent ->
                Aired(media.title, ref.airYear, ref.season)
          [] media.type = "tv" /\ media.numbering = "standard" /\ ref.number # Absent ->
                Numbered(media.title, Max({ref.season, 0}), ref.number)
          [] OTHER -> Unnamed

Item == [video : Urls, id : Nat, ref : Refs \cup {Next1}]

\* An id is of the video it was given for, as long as its row is there; no id is given twice.
InspectionsInv ==
    /\ lastId \in Nat /\ DOMAIN inspections \subseteq 1..lastId
    /\ \A k \in DOMAIN inspections : inspections[k] \in [video : Urls, expired : BOOLEAN]
    /\ items \in Seq(Item)
    /\ \A i \in 1..Len(items) :
          /\ items[i].id \in 1..lastId
          /\ items[i].id \in DOMAIN inspections => inspections[items[i].id].video = items[i].video

\* A preview is the path of its item's target.
IsPathOf(path, item) ==
    TargetOf(item) # Unnamed /\ path = BuildPath(TargetOf(item), Estimated)

PreviewsInv ==
    /\ media \in Media \cup {NoBody}
    /\ media = NoBody => items = << >>
    /\ Len(previews) = Len(items) /\ \E S : previews \in Seq(S)
    /\ \A i \in 1..Len(items) :
          previews[i].path # Unnamed => IsPathOf(previews[i].path, items[i])

\* What a job's file may come to when its item was shown a path.
AsShown(i) ==
    \/ placed[i].type = "collision" /\ request.policy = "ask" /\ request.type # "other"
    \/ /\ placed[i].type = "placed" /\ placed[i].naming = previews[i].naming
       /\ placed[i].path.target = previews[i].path.target

\* The rows of a request hold what the wizard was given, and what is placed is as shown.
RowsInv ==
    /\ ~Created => jobs = << >> /\ placed = << >>
    /\ Created =>
          /\ items # << >>
          /\ request.type = media.type
          /\ media.type \in {"movie", "tv"} => request.title = media.title
          /\ media.type = "movie" => request.year = media.year
          /\ media.type = "tv" => request.numbering = media.numbering
          /\ jobs = [i \in 1..Len(items) |-> [video |-> items[i].video, ref |-> items[i].ref]]
          /\ placed = [i \in 1..Len(items) |-> placed[i]]
          /\ \A i \in 1..Len(items) : previews[i].path # Unnamed =>
                /\ previews[i].naming = request.naming
                /\ placed[i] # Unnamed => AsShown(i)

RequestsInv == InspectionsInv /\ PreviewsInv /\ RowsInv

LEMMA MaxOfTwo ==
  ASSUME NEW n \in Nat
  PROVE  Max({n, 0}) = n
<1>1. \E x \in {n, 0} : \A y \in {n, 0} : x >= y
  OBVIOUS
<1>2. Max({n, 0}) \in {n, 0} /\ \A y \in {n, 0} : Max({n, 0}) >= y
  BY <1>1 DEF Max
<1> QED
  BY <1>2

LEMMA MaxIsIn ==
  ASSUME NEW S \in SUBSET Nat, S # {}, NEW bound \in Nat, \A n \in S : n <= bound
  PROVE  Max(S) \in S
<1>1. PICK x \in S : \A y \in S : y <= x
  BY GreatestOf
<1>2. \A y \in S : x >= y
  BY <1>1
<1> QED
  BY <1>2 DEF Max

\* The claim builds the target that the preview was made from.
LEMMA ClaimedAsPreviewed ==
  ASSUME RequestsInv, Created, NEW i \in 1..Len(items), previews[i].path # Unnamed
  PROVE  \A quality :
            LET path == BuildPath(ClaimedTarget(jobs[i]), quality)
            IN  path # Unnamed /\ path.target = previews[i].path.target
<1> USE DEF RequestsInv
<1>1. /\ items[i] \in Item /\ media \in Media
      /\ jobs[i].video = items[i].video /\ jobs[i].ref = items[i].ref
      /\ IsPathOf(previews[i].path, items[i])
  BY DEF InspectionsInv, PreviewsInv, RowsInv
<1>2. TargetOf(items[i]) # Unnamed
  BY <1>1 DEF IsPathOf
<1>3. ClaimedTarget(jobs[i]) = TargetOf(items[i])
  <2>1. CASE media.type = "movie"
    BY <1>1, <2>1 DEF ClaimedTarget, TargetOf, RowsInv
  <2>2. CASE media.type = "other"
    BY <1>1, <2>2 DEF ClaimedTarget, TargetOf, RowsInv
  <2>3. CASE media.type = "tv"
    <3>1. /\ request.type = "tv" /\ request.title = media.title
          /\ request.numbering = media.numbering
      BY <2>3 DEF RowsInv
    <3>2. CASE media.numbering = "daily" /\ items[i].ref.airYear # Absent
      BY <1>1, <2>3, <3>1, <3>2 DEF ClaimedTarget, ClaimedEpisode, TargetOf
    <3>3. CASE media.numbering = "standard" /\ items[i].ref.number # Absent
      <4>1. items[i].ref.number \in Nat
        BY <1>1, <3>3 DEF Item, Refs, Next1, Absent
      <4>2. Max({items[i].ref.number, 0}) = items[i].ref.number
        BY <4>1, MaxOfTwo
      <4> QED
        BY <1>1, <2>3, <3>1, <3>3, <4>2 DEF ClaimedTarget, ClaimedEpisode, TargetOf
    <3>4. CASE /\ ~(media.numbering = "daily" /\ items[i].ref.airYear # Absent)
               /\ ~(media.numbering = "standard" /\ items[i].ref.number # Absent)
      BY <1>2, <2>3, <3>4 DEF TargetOf
    <3> QED
      BY <3>2, <3>3, <3>4
  <2> QED
    BY <1>1, <2>1, <2>2, <2>3 DEF Media
<1>4. ASSUME NEW quality
      PROVE  /\ BuildPath(TargetOf(items[i]), quality) # Unnamed
             /\ BuildPath(TargetOf(items[i]), quality).target = TargetOf(items[i])
  BY <1>1 DEF IsPathOf, BuildPath, Unnamed
<1>5. BuildPath(TargetOf(items[i]), Estimated).target = TargetOf(items[i])
  BY <1>4
<1> QED
  BY <1>1, <1>3, <1>4, <1>5 DEF IsPathOf

\* The parts of the invariant stand while what they speak of does.
LEMMA PreviewsStand ==
  ASSUME PreviewsInv, UNCHANGED <<media, items, previews>>
  PROVE  PreviewsInv'
<1>1. ASSUME NEW i \in 1..Len(items), previews[i].path # Unnamed
      PROVE  IsPathOf(previews[i].path, items[i])'
  <2>1. IsPathOf(previews[i].path, items[i])
    BY <1>1 DEF PreviewsInv
  <2>2. TargetOf(items[i])' = TargetOf(items[i])
    BY DEF TargetOf
  <2> QED
    BY <2>1, <2>2 DEF IsPathOf
<1>2. Len(previews) = Len(items) /\ \E S : previews \in Seq(S)
  BY DEF PreviewsInv
<1>3. media \in Media \cup {NoBody} /\ (media = NoBody => items = << >>)
  BY DEF PreviewsInv
<1> QED
  BY <1>1, <1>2, <1>3 DEF PreviewsInv

LEMMA RowsStand ==
  ASSUME RowsInv, UNCHANGED <<media, items, previews, request, jobs, placed>>
  PROVE  RowsInv'
<1>1. Created' = Created
  BY DEF Created
<1>2. ASSUME NEW i \in 1..Len(items), AsShown(i)
      PROVE  AsShown(i)'
  BY <1>2 DEF AsShown
<1>3. CASE ~Created
  BY <1>1, <1>3 DEF RowsInv
<1>4. CASE Created
  BY <1>1, <1>2, <1>4 DEF RowsInv
<1> QED
  BY <1>3, <1>4

\* An item that the wizard is given, with an id that is of its video.
LEMMA HoldStep ==
  ASSUME RequestsInv, NEW video \in Urls, NEW id \in 1..lastId', Hold(video, id),
         lastId' \in Nat, DOMAIN inspections' \subseteq 1..lastId', lastId <= lastId',
         \A k \in DOMAIN inspections' : inspections'[k] \in [video : Urls, expired : BOOLEAN],
         id \in DOMAIN inspections' => inspections'[id].video = video,
         \A k \in DOMAIN inspections' \cap (1..lastId) :
            k \in DOMAIN inspections /\ inspections'[k].video = inspections[k].video,
         UNCHANGED <<media, request, jobs, placed>>
  PROVE  RequestsInv'
<1> USE DEF RequestsInv
<1>1. PICK ref \in Refs \cup {Next1} :
         items' = Append(items, [video |-> video, id |-> id, ref |-> ref])
  BY DEF Hold
<1>2. media # NoBody /\ ~Created /\ previews' = Append(previews, NotAsked)
  BY DEF Hold
<1>3. items \in Seq(Item) /\ [video |-> video, id |-> id, ref |-> ref] \in Item
  BY DEF InspectionsInv, Item
<1>4. /\ items' \in Seq(Item) /\ Len(items') = Len(items) + 1 /\ Len(items) \in Nat
      /\ \A i \in 1..Len(items) : items'[i] = items[i]
      /\ items'[Len(items')] = [video |-> video, id |-> id, ref |-> ref]
  BY <1>1, <1>3
<1>5. InspectionsInv'
  <2>1. ASSUME NEW i \in 1..Len(items')
        PROVE  /\ items'[i].id \in 1..lastId'
               /\ items'[i].id \in DOMAIN inspections' =>
                     inspections'[items'[i].id].video = items'[i].video
    <3>1. CASE i = Len(items')
      BY <1>4, <3>1
    <3>2. CASE i # Len(items')
      <4>1. i \in 1..Len(items) /\ items'[i] = items[i]
        BY <1>4, <3>2
      <4>2. items[i].id \in 1..lastId /\ lastId \in Nat
            /\ (items[i].id \in DOMAIN inspections =>
                   inspections[items[i].id].video = items[i].video)
        BY <4>1 DEF InspectionsInv
      <4> QED
        BY <4>1, <4>2
    <3> QED
      BY <3>1, <3>2
  <2> QED
    BY <1>4, <2>1 DEF InspectionsInv
<1>6. PreviewsInv'
  <2>1. PICK S : previews \in Seq(S)
    BY DEF PreviewsInv
  <2>2. previews \in Seq(S \cup {NotAsked}) /\ NotAsked \in S \cup {NotAsked}
    BY <2>1
  <2>3. Len(previews) = Len(items)
    BY DEF PreviewsInv
  <2>4. /\ previews' \in Seq(S \cup {NotAsked}) /\ Len(previews') = Len(items')
        /\ \A i \in 1..Len(items) : previews'[i] = previews[i]
        /\ previews'[Len(items')] = NotAsked
    BY <1>2, <1>4, <2>2, <2>3
  <2>5. ASSUME NEW i \in 1..Len(items'), previews'[i].path # Unnamed
        PROVE  /\ items'[i] = items[i]
               /\ IsPathOf(previews'[i].path, items[i])
    <3>1. i # Len(items')
      BY <2>4, <2>5 DEF NotAsked
    <3>2. i \in 1..Len(items)
      BY <1>4, <3>1
    <3>3. IsPathOf(previews[i].path, items[i])
      BY <2>4, <2>5, <3>2 DEF PreviewsInv
    <3> QED
      BY <1>4, <2>4, <3>2, <3>3
  <2> QED
    <3>1. media' = media /\ media # NoBody
      BY <1>2
    <3>2. ASSUME NEW i \in 1..Len(items'), previews'[i].path # Unnamed
          PROVE  IsPathOf(previews[i].path, items[i])'
      BY <2>5, <3>1, <3>2 DEF IsPathOf, TargetOf
    <3>3. media' \in Media \cup {NoBody}
      BY <3>1 DEF PreviewsInv
    <3> QED
      BY <2>4, <3>1, <3>2, <3>3 DEF PreviewsInv
<1>7. RowsInv'
  BY <1>2 DEF RowsInv, Created
<1> QED
  BY <1>5, <1>6, <1>7

\* What becomes of the inspections' rows.
LEMMA InspectStep ==
  ASSUME RequestsInv, NEW video \in Urls, InspectCached(video) \/ InspectRun(video)
  PROVE  RequestsInv'
<1>1. /\ lastId \in Nat /\ DOMAIN inspections \subseteq 1..lastId
      /\ \A k \in DOMAIN inspections : inspections[k] \in [video : Urls, expired : BOOLEAN]
  BY DEF RequestsInv, InspectionsInv
<1>2. CASE InspectCached(video)
  <2> DEFINE id == Max(LiveRows(video))
  <2>1. LiveRows(video) \in SUBSET Nat /\ LiveRows(video) # {}
        /\ \A k \in LiveRows(video) : k <= lastId
    <3>1. \A k \in LiveRows(video) : k \in Nat /\ k <= lastId
      BY <1>1 DEF LiveRows
    <3> QED
      BY <1>2, <3>1 DEF InspectCached
  <2>2. id \in LiveRows(video)
    BY <1>1, <2>1, MaxIsIn
  <2>3. id \in DOMAIN inspections /\ inspections[id].video = video /\ id \in 1..lastId
    BY <1>1, <2>2 DEF LiveRows
  <2>4. Hold(video, id) /\ UNCHANGED <<inspections, lastId, media, request, jobs, placed>>
    BY <1>2 DEF InspectCached
  <2> HIDE DEF id
  <2>5. id \in 1..lastId' /\ lastId <= lastId'
    BY <1>1, <2>3, <2>4
  <2> QED
    BY <1>1, <2>3, <2>4, <2>5, HoldStep
<1>3. CASE InspectRun(video)
  <2> DEFINE kept == {i \in DOMAIN inspections : ~inspections[i].expired}
             id   == lastId + 1
  <2>1. /\ inspections' = [i \in kept \cup {id} |->
              IF i = id THEN [video |-> video, expired |-> FALSE] ELSE inspections[i]]
        /\ lastId' = lastId + 1
        /\ Hold(video, id) \/ UNCHANGED <<items, previews>>
        /\ UNCHANGED <<media, request, jobs, placed>>
    BY <1>3 DEF InspectRun, NewId
  <2>2. /\ lastId' \in Nat /\ DOMAIN inspections' \subseteq 1..lastId' /\ id \in 1..lastId'
        /\ lastId <= lastId'
    BY <1>1, <2>1
  <2>3. \A k \in DOMAIN inspections' : inspections'[k] \in [video : Urls, expired : BOOLEAN]
    BY <1>1, <2>1
  <2>4. \A k \in DOMAIN inspections' \cap (1..lastId) :
           k \in DOMAIN inspections /\ inspections'[k].video = inspections[k].video
    BY <1>1, <2>1
  <2>5. inspections'[id].video = video
    BY <2>1
  <2>6. CASE Hold(video, id)
    <3> HIDE DEF kept, id
    <3> QED
      BY <2>1, <2>2, <2>3, <2>4, <2>5, <2>6, HoldStep
  <2>7. CASE UNCHANGED <<items, previews>>
    <3>1. InspectionsInv'
      <4>1. ASSUME NEW i \in 1..Len(items)
            PROVE  /\ items[i].id \in 1..lastId'
                   /\ items[i].id \in DOMAIN inspections' =>
                         inspections'[items[i].id].video = items[i].video
        <5>1. items[i].id \in 1..lastId
          BY DEF RequestsInv, InspectionsInv
        <5>2. items[i].id \in DOMAIN inspections =>
                 inspections[items[i].id].video = items[i].video
          BY DEF RequestsInv, InspectionsInv
        <5> QED
          BY <1>1, <2>2, <2>4, <5>1, <5>2
      <4> QED
        BY <2>2, <2>3, <2>7, <4>1 DEF RequestsInv, InspectionsInv
    <3>2. PreviewsInv'
      BY <2>1, <2>7, PreviewsStand DEF RequestsInv
    <3>3. RowsInv'
      BY <2>1, <2>7, RowsStand DEF RequestsInv
    <3> QED
      BY <3>1, <3>2, <3>3 DEF RequestsInv
  <2> QED
    BY <2>1, <2>6, <2>7
<1> QED
  BY <1>2, <1>3

LEMMA ExpireStep ==
  ASSUME RequestsInv, Expire
  PROVE  RequestsInv'
<1>1. UNCHANGED <<lastId, media, items, previews, request, jobs, placed>>
  BY DEF Expire
<1>2. /\ DOMAIN inspections' \subseteq DOMAIN inspections
      /\ \A k \in DOMAIN inspections' :
            /\ inspections'[k] \in [video : Urls, expired : BOOLEAN]
            /\ inspections'[k].video = inspections[k].video
  <2>1. \A k \in DOMAIN inspections : inspections[k] \in [video : Urls, expired : BOOLEAN]
    BY DEF RequestsInv, InspectionsInv
  <2>2. PICK i \in DOMAIN inspections :
           \/ inspections' = [inspections EXCEPT ![i].expired = TRUE]
           \/ inspections' = [k \in DOMAIN inspections \ {i} |-> inspections[k]]
    BY DEF Expire
  <2>3. CASE inspections' = [inspections EXCEPT ![i].expired = TRUE]
    BY <2>1, <2>3
  <2>4. CASE inspections' = [k \in DOMAIN inspections \ {i} |-> inspections[k]]
    BY <2>1, <2>4
  <2> QED
    BY <2>2, <2>3, <2>4
<1>3. InspectionsInv'
  BY <1>1, <1>2 DEF RequestsInv, InspectionsInv
<1>4. PreviewsInv'
  BY <1>1, PreviewsStand DEF RequestsInv
<1>5. RowsInv'
  BY <1>1, RowsStand DEF RequestsInv
<1> QED
  BY <1>3, <1>4, <1>5 DEF RequestsInv

LEMMA WizardStep ==
  ASSUME RequestsInv, OpenWizard \/ PatchNaming
  PROVE  RequestsInv'
<1>1. UNCHANGED <<inspections, lastId, items, previews, request, jobs, placed>>
  BY DEF OpenWizard, PatchNaming
<1>2. InspectionsInv'
  BY <1>1 DEF RequestsInv, InspectionsInv
<1>3. CASE OpenWizard
  <2>1. media = NoBody /\ media' \in Media /\ items = << >> /\ Len(items) = 0
    BY <1>3 DEF OpenWizard, RequestsInv, PreviewsInv
  <2>2. ~Created
    BY <2>1 DEF RequestsInv, RowsInv
  <2>3. PreviewsInv'
    BY <1>1, <2>1 DEF RequestsInv, PreviewsInv
  <2>4. RowsInv'
    BY <1>1, <2>2 DEF RequestsInv, RowsInv, Created
  <2> QED
    BY <1>2, <2>3, <2>4 DEF RequestsInv
<1>4. CASE PatchNaming
  <2>1. UNCHANGED media
    BY <1>4 DEF PatchNaming
  <2>2. PreviewsInv'
    BY <1>1, <2>1, PreviewsStand DEF RequestsInv
  <2>3. RowsInv'
    BY <1>1, <2>1, RowsStand DEF RequestsInv
  <2> QED
    BY <1>2, <2>2, <2>3 DEF RequestsInv
<1> QED
  BY <1>3, <1>4

LEMMA PreviewStep ==
  ASSUME RequestsInv, Preview
  PROVE  RequestsInv'
<1>1. PICK i \in DOMAIN items :
         /\ ~Created /\ items[i].id \in DOMAIN inspections
         /\ previews' = [previews EXCEPT ![i] =
               [path |-> IF PreviewTarget(items[i]) = Unnamed THEN Unnamed
                         ELSE BuildPath(PreviewTarget(items[i]), Estimated),
                naming |-> naming]]
  BY DEF Preview
<1>2. UNCHANGED <<inspections, lastId, media, items, request, jobs, placed>>
  BY DEF Preview
<1>3. i \in 1..Len(items) /\ Len(previews) = Len(items) /\ items \in Seq(Item)
  BY DEF RequestsInv, InspectionsInv, PreviewsInv
<1>4. PreviewTarget(items[i]) = TargetOf(items[i])
  <2>1. inspections[items[i].id].video = items[i].video
    BY <1>1, <1>3 DEF RequestsInv, InspectionsInv
  <2> QED
    BY <2>1 DEF PreviewTarget, TargetOf
<1>5. PICK S : previews \in Seq(S)
  BY DEF RequestsInv, PreviewsInv
<1> DEFINE shown == [path |-> IF PreviewTarget(items[i]) = Unnamed THEN Unnamed
                              ELSE BuildPath(PreviewTarget(items[i]), Estimated),
                     naming |-> naming]
<1>6. shown.path # Unnamed => IsPathOf(shown.path, items[i])
  BY <1>4 DEF IsPathOf
<1> HIDE DEF shown
<1>7. previews' = [previews EXCEPT ![i] = shown]
  BY <1>1 DEF shown
<1>8. /\ previews' \in Seq(S \cup {shown}) /\ Len(previews') = Len(previews)
      /\ previews'[i] = shown
      /\ \A k \in 1..Len(items) : k # i => previews'[k] = previews[k]
  BY <1>3, <1>5, <1>7
<1>9. PreviewsInv'
  <2>1. ASSUME NEW k \in 1..Len(items), previews'[k].path # Unnamed
        PROVE  IsPathOf(previews'[k].path, items[k])
    BY <1>6, <1>8, <2>1 DEF RequestsInv, PreviewsInv
  <2>2. ASSUME NEW k \in 1..Len(items), previews'[k].path # Unnamed
        PROVE  IsPathOf(previews[k].path, items[k])'
    <3>1. TargetOf(items[k])' = TargetOf(items[k])
      BY <1>2 DEF TargetOf
    <3> QED
      BY <1>2, <2>1, <2>2, <3>1 DEF IsPathOf
  <2>3. media \in Media \cup {NoBody} /\ (media = NoBody => items = << >>)
    BY DEF RequestsInv, PreviewsInv
  <2> QED
    BY <1>2, <1>3, <1>8, <2>2, <2>3 DEF PreviewsInv
<1>10. InspectionsInv'
  BY <1>2 DEF RequestsInv, InspectionsInv
<1>11. RowsInv'
  BY <1>1, <1>2 DEF RequestsInv, RowsInv, Created
<1> QED
  BY <1>9, <1>10, <1>11 DEF RequestsInv

LEMMA CreateStep ==
  ASSUME RequestsInv, Create
  PROVE  RequestsInv'
<1>1. /\ items # << >>
      /\ \A i \in DOMAIN items : items[i].id \in DOMAIN inspections
      /\ UNCHANGED <<inspections, lastId, media, items>>
  BY DEF Create
<1>2. media \in Media /\ items \in Seq(Item) /\ DOMAIN items = 1..Len(items)
  BY <1>1 DEF RequestsInv, InspectionsInv, PreviewsInv
<1>3. /\ request'.type = media.type
      /\ media.type \in {"movie", "tv"} => request'.title = media.title
      /\ media.type = "movie" => request'.year = media.year
      /\ media.type = "tv" => request'.numbering = media.numbering
  BY DEF Create, Media
<1>4. jobs' = [i \in 1..Len(items) |-> [video |-> items[i].video, ref |-> items[i].ref]]
  <2>1. \A i \in 1..Len(items) : inspections[items[i].id].video = items[i].video
    BY <1>1, <1>2 DEF RequestsInv, InspectionsInv
  <2> QED
    BY <1>2, <2>1 DEF Create
<1>5. placed' = [i \in 1..Len(items) |-> Unnamed]
  BY <1>2 DEF Create
<1>6. Created'
  BY <1>2, <1>3 DEF Created, NoBody, Media
<1>7. InspectionsInv'
  BY <1>1 DEF RequestsInv, InspectionsInv
<1>8. /\ previews' = [i \in 1..Len(items) |->
                        IF previews[i].naming = request'.naming THEN previews[i] ELSE NotAsked]
      /\ request'.naming = naming
  BY <1>2 DEF Create
<1>9. PreviewsInv'
  <2>1. \E S : previews' \in Seq(S) /\ Len(previews') = Len(items)
    <3>1. Len(items) \in Nat
      BY <1>2
    <3>2. previews' \in Seq({previews'[i] : i \in 1..Len(items)}) /\ Len(previews') = Len(items)
      BY <1>8, <3>1
    <3> QED
      BY <3>2
  <2>2. ASSUME NEW i \in 1..Len(items), previews'[i].path # Unnamed
        PROVE  IsPathOf(previews'[i].path, items[i])
    <3>1. previews'[i] = previews[i]
      BY <1>8, <2>2 DEF NotAsked
    <3> QED
      BY <2>2, <3>1 DEF RequestsInv, PreviewsInv
  <2>3. ASSUME NEW i \in 1..Len(items), previews'[i].path # Unnamed
        PROVE  IsPathOf(previews[i].path, items[i])'
    <3>1. TargetOf(items[i])' = TargetOf(items[i])
      BY <1>1 DEF TargetOf
    <3> QED
      BY <1>1, <2>2, <2>3, <3>1 DEF IsPathOf
  <2> QED
    BY <1>1, <1>2, <2>1, <2>3 DEF RequestsInv, PreviewsInv
<1>10. RowsInv'
  <2>1. \A i \in 1..Len(items) :
           previews'[i].path # Unnamed => previews'[i].naming = request'.naming
    BY <1>8 DEF NotAsked
  <2> QED
    BY <1>1, <1>3, <1>4, <1>5, <1>6, <2>1 DEF RowsInv
<1> QED
  BY <1>7, <1>9, <1>10 DEF RequestsInv

LEMMA PlaceStep ==
  ASSUME RequestsInv, Place
  PROVE  RequestsInv'
<1>1. Created
  BY DEF RequestsInv, RowsInv, Place
<1> DEFINE Came(i, quality, taken) ==
               placed' = [placed EXCEPT ![i] =
                   Settled(BuildPath(ClaimedTarget(jobs[i]), quality), taken)]
<1>2. PICK i \in 1..Len(items), quality \in Qualities, taken \in BOOLEAN : Came(i, quality, taken)
  <2>1. DOMAIN jobs = 1..Len(items)
    BY <1>1 DEF RequestsInv, RowsInv
  <2>2. \E i \in DOMAIN jobs, quality \in Qualities, taken \in BOOLEAN : Came(i, quality, taken)
    BY DEF Place
  <2> HIDE DEF Came
  <2> QED
    BY <2>1, <2>2
<1>3. UNCHANGED <<inspections, lastId, media, items, previews, request, jobs>>
  BY DEF Place
<1>4. previews[i].path # Unnamed => AsShown(i)'
  <2> SUFFICES ASSUME previews[i].path # Unnamed
               PROVE  AsShown(i)'
    OBVIOUS
  <2> DEFINE path == BuildPath(ClaimedTarget(jobs[i]), quality)
  <2>1. path # Unnamed /\ path.target = previews[i].path.target
    BY <1>1, ClaimedAsPreviewed
  <2>2. placed'[i] = Settled(path, taken) /\ previews[i].naming = request.naming
    BY <1>1, <1>2 DEF RequestsInv, RowsInv
  <2> HIDE DEF path
  <2> QED
    BY <1>3, <2>1, <2>2 DEF AsShown, Settled
<1>5. RowsInv'
  <2>1. /\ placed' = [k \in 1..Len(items) |-> placed'[k]]
        /\ \A k \in 1..Len(items) : k # i => placed'[k] = placed[k]
    BY <1>1, <1>2 DEF RequestsInv, RowsInv
  <2>2. ASSUME NEW k \in 1..Len(items), placed'[k] # Unnamed, previews[k].path # Unnamed
        PROVE  AsShown(k)'
    <3>1. CASE k = i
      BY <1>4, <2>2, <3>1
    <3>2. CASE k # i
      <4>1. AsShown(k) /\ placed'[k] = placed[k]
        BY <1>1, <2>1, <2>2, <3>2 DEF RequestsInv, RowsInv
      <4> QED
        BY <1>3, <4>1 DEF AsShown
    <3> QED
      BY <3>1, <3>2
  <2> QED
    BY <1>1, <1>3, <2>1, <2>2 DEF RequestsInv, RowsInv, Created
<1>6. InspectionsInv'
  BY <1>3 DEF RequestsInv, InspectionsInv
<1>7. PreviewsInv'
  BY <1>3, PreviewsStand DEF RequestsInv
<1> QED
  BY <1>5, <1>6, <1>7 DEF RequestsInv

\* "a client may still hold one of an expired, deleted row" (inspections/models.py) and "the
\* request keeps the naming it was made with" (create): for any URLs, naming settings and
\* number of inspections.
THEOREM PlacedAsPreviewed == RequestsSpec => []PreviewIsKept
<1>1. RequestsInit => RequestsInv
  <2> SUFFICES ASSUME RequestsInit
               PROVE  RequestsInv
    OBVIOUS
  <2>1. << >> \in Seq(Item) /\ << >> \in Seq({}) /\ Len(items) = 0
    BY DEF RequestsInit
  <2>2. DOMAIN inspections = {}
    BY DEF RequestsInit
  <2> QED
    BY <2>1, <2>2 DEF RequestsInit, RequestsInv, InspectionsInv, PreviewsInv, RowsInv, Created
<1>2. RequestsInv /\ [RequestsNext]_requestVars => RequestsInv'
  <2> SUFFICES ASSUME RequestsInv, [RequestsNext]_requestVars
               PROVE  RequestsInv'
    OBVIOUS
  <2>1. CASE UNCHANGED requestVars
    <3>1. InspectionsInv'
      BY <2>1 DEF requestVars, RequestsInv, InspectionsInv
    <3>2. PreviewsInv'
      BY <2>1, PreviewsStand DEF requestVars, RequestsInv
    <3>3. RowsInv'
      BY <2>1, RowsStand DEF requestVars, RequestsInv
    <3> QED
      BY <3>1, <3>2, <3>3 DEF RequestsInv
  <2> QED
    BY <2>1, InspectStep, ExpireStep, WizardStep, PreviewStep, CreateStep, PlaceStep
       DEF RequestsNext
<1>3. RequestsInv => PreviewIsKept
  <2> SUFFICES ASSUME RequestsInv
               PROVE  PreviewIsKept
    OBVIOUS
  <2>1. CASE Created
    <3>1. DOMAIN jobs = 1..Len(items) /\ DOMAIN placed = 1..Len(items)
      BY <2>1 DEF RequestsInv, RowsInv
    <3>2. ASSUME NEW i \in 1..Len(items)
          PROVE  /\ jobs[i].video = items[i].video
                 /\ placed[i] # Unnamed /\ previews[i].path # Unnamed => AsShown(i)
      BY <2>1 DEF RequestsInv, RowsInv
    <3> QED
      BY <3>1, <3>2 DEF AsShown, PreviewIsKept
  <2>2. CASE ~Created
    <3>1. DOMAIN jobs = {} /\ DOMAIN placed = {}
      BY <2>2 DEF RequestsInv, RowsInv
    <3> QED
      BY <3>1 DEF PreviewIsKept
  <2> QED
    BY <2>1, <2>2
<1> QED
  BY <1>1, <1>2, <1>3, PTL DEF RequestsSpec

---------------------------------------------------------------------------
(* The attempts to log in                                                  *)

\* The deque of an address; one that was dropped is empty.
Deque(a) == IF a \in DOMAIN attempts THEN attempts[a] ELSE <<>>

\* A deque has the last logins of its address, in order; the ones before are a window old.
IsTailOf(deque, logins) ==
    /\ deque \in Seq(Nat) /\ Len(deque) <= Len(logins)
    /\ \A i \in 1..Len(deque) : deque[i] = logins[Len(logins) - Len(deque) + i]
    /\ \A i \in 1..Len(logins) - Len(deque) : logins[i] + Window <= tick

\* Logins come one after the other, and no window has more of them than it may.
WellSpaced(logins) ==
    /\ logins \in Seq(Nat)
    /\ \A i \in 1..Len(logins) : logins[i] <= tick
    /\ \A i, j \in 1..Len(logins) : i <= j => logins[i] <= logins[j]
    /\ \A i \in 1..Len(logins) :
          i > LoginAttempts => logins[i] >= logins[i - LoginAttempts] + Window

\* A refusal of this moment: the deque is full, nothing in it is old, and after the seconds
\* to wait its first attempt is.
RefusalInv ==
    refusal # NoRefusal /\ refusal.at = tick =>
        /\ refusal.of \in DOMAIN attempts /\ Len(attempts[refusal.of]) = LoginAttempts
        /\ attempts[refusal.of][1] + Window > tick
        /\ attempts[refusal.of][1] + Window <= refusal.at + refusal.seconds * TicksPerSecond

LimitInv ==
    /\ tick \in Nat /\ DOMAIN attempts \subseteq Addresses
    /\ granted = [a \in Addresses |-> granted[a]]
    /\ \A a \in DOMAIN attempts : attempts[a] # <<>>
    /\ \A a \in Addresses :
          /\ IsTailOf(Deque(a), granted[a]) /\ Len(Deque(a)) <= LoginAttempts
          /\ WellSpaced(granted[a])
    /\ refusal.at \in Nat /\ refusal.at <= tick /\ refusal.seconds \in Nat
    /\ RefusalInv

\* A rounded-up division is enough.
LEMMA CeilIsEnough ==
  ASSUME NEW x \in Nat, NEW d \in Nat \ {0}
  PROVE  /\ (x + d - 1) \div d \in Nat
         /\ ((x + d - 1) \div d) * d >= x
  OBVIOUS

\* The logins of an address that is dropped, or that tries again, are all a window old.
LEMMA DroppedAreOld ==
  ASSUME LimitInv, NEW a \in Addresses, a \notin Kept
  PROVE  IsTailOf(<<>>, granted[a])
<1> DEFINE logins == granted[a]
           deque  == Deque(a)
<1>1. IsTailOf(deque, logins) /\ WellSpaced(logins) /\ tick \in Nat
  BY DEF LimitInv
<1> HIDE DEF logins
<1>2. CASE a \notin DOMAIN attempts
  BY <1>1, <1>2 DEF Deque, logins
<1>3. CASE a \in DOMAIN attempts
  <2>1. deque = attempts[a] /\ deque # <<>> /\ deque[Len(deque)] + Window <= tick
    BY <1>3 DEF Deque, Kept, Stale, LimitInv
  <2> HIDE DEF deque
  <2>2. /\ deque \in Seq(Nat) /\ logins \in Seq(Nat) /\ Len(deque) \in Nat /\ Len(deque) > 0
        /\ Len(logins) \in Nat /\ Len(deque) <= Len(logins) /\ Window \in Nat
    BY <1>1, <2>1, LimitAssumption DEF IsTailOf, WellSpaced
  <2>3. deque[Len(deque)] = logins[Len(logins)]
    BY <1>1, <2>2 DEF IsTailOf
  <2>4. ASSUME NEW i \in 1..Len(logins)
        PROVE  logins[i] + Window <= tick
    <3>1. logins[i] <= logins[Len(logins)] /\ logins[i] \in Nat /\ logins[Len(logins)] \in Nat
      BY <1>1, <2>2 DEF WellSpaced
    <3> QED
      BY <1>1, <2>1, <2>2, <2>3, <3>1
  <2>5. <<>> \in Seq(Nat) /\ Len(<<>>) = 0
    OBVIOUS
  <2> QED
    BY <2>2, <2>4, <2>5 DEF IsTailOf, logins
<1> QED
  BY <1>2, <1>3

\* What is left of a deque when the old attempts are popped.
LEMMA RecentIsRest ==
  ASSUME LimitInv, NEW a \in Addresses
  PROVE  /\ IsTailOf(Recent(a), granted[a]) /\ Len(Recent(a)) <= LoginAttempts
         /\ Recent(a) # <<>> => Recent(a)[1] + Window > tick
         /\ a \in Kept /\ Deque(a)[1] + Window > tick => Recent(a) = attempts[a]
<1>1. CASE a \notin Kept
  <2>1. Recent(a) = <<>> /\ Len(<<>>) = 0
    BY <1>1 DEF Recent
  <2> QED
    BY <1>1, <2>1, DroppedAreOld, LimitAssumption
<1>2. CASE a \in Kept
  <2> DEFINE logins == granted[a]
             deque  == attempts[a]
             fresh  == {i \in DOMAIN deque : deque[i] + Window > tick}
             IsFirst(i) == /\ deque[i] + Window > tick
                           /\ \A j \in 1 .. i - 1 : deque[j] + Window <= tick
             first  == CHOOSE i \in DOMAIN deque : IsFirst(i)
  <2>1. /\ deque = Deque(a) /\ deque # <<>> /\ ~(deque[Len(deque)] + Window <= tick)
        /\ IsTailOf(deque, logins) /\ WellSpaced(logins) /\ tick \in Nat
        /\ Len(deque) <= LoginAttempts
    BY <1>2 DEF Kept, Stale, Deque, LimitInv
  <2>2. Recent(a) = SubSeq(deque, first, Len(deque))
    BY <1>2 DEF Recent
  <2> HIDE DEF logins, deque
  <2>3. /\ deque \in Seq(Nat) /\ logins \in Seq(Nat) /\ Len(deque) \in Nat /\ Len(deque) > 0
        /\ Len(logins) \in Nat /\ Len(deque) <= Len(logins) /\ Window \in Nat
        /\ DOMAIN deque = 1..Len(deque) /\ \A i \in DOMAIN deque : deque[i] \in Nat
    <3>1. deque \in Seq(Nat) /\ logins \in Seq(Nat) /\ Len(deque) <= Len(logins)
      BY <2>1 DEF IsTailOf, WellSpaced
    <3>2. Len(deque) \in Nat /\ Len(logins) \in Nat /\ DOMAIN deque = 1..Len(deque)
      BY <3>1
    <3>3. Len(deque) > 0
      BY <2>1, <3>1, <3>2
    <3>4. \A i \in DOMAIN deque : deque[i] \in Nat
      BY <3>1, <3>2
    <3>5. Window \in Nat
      BY LimitAssumption
    <3> QED
      BY <3>1, <3>2, <3>3, <3>4, <3>5
  <2>4. PICK f \in fresh : \A i \in fresh : f <= i
    <3>1. Len(deque) \in fresh
      BY <2>1, <2>3
    <3>2. fresh \in SUBSET Nat
      BY <2>3
    <3> HIDE DEF fresh
    <3> QED
      BY <3>1, <3>2, LeastOf
  <2>5. f \in DOMAIN deque /\ IsFirst(f)
    <3>1. f \in 1..Len(deque) /\ deque[f] + Window > tick
      BY <2>3, <2>4
    <3>2. ASSUME NEW j \in 1 .. f - 1
          PROVE  deque[j] + Window <= tick
      <4>1. j \in 1..Len(deque)
        BY <2>3, <3>1
      <4>2. ~(f <= j)
        BY <3>1
      <4>3. deque[j] \in Nat
        BY <2>3, <4>1
      <4>4. j \notin fresh
        BY <2>4, <4>2
      <4> QED
        BY <2>1, <2>3, <4>1, <4>3, <4>4
    <3> QED
      BY <2>3, <3>1, <3>2
  <2>6. first \in DOMAIN deque /\ IsFirst(first)
    BY <2>5
  <2> HIDE DEF first
  <2>7. first \in 1..Len(deque)
    BY <2>3, <2>6
  <2>8. /\ Recent(a) \in Seq(Nat) /\ Len(Recent(a)) = Len(deque) - first + 1
        /\ \A i \in 1..Len(Recent(a)) : Recent(a)[i] = deque[first - 1 + i]
    <3>1. first \in Nat /\ 1 <= first /\ first <= Len(deque)
      BY <2>3, <2>7
    <3>2. deque \in Seq(Nat) /\ Len(deque) \in Nat
      BY <2>3
    <3> QED
      BY <2>2, <3>1, <3>2
  <2>9. first \in Nat /\ 1 <= first /\ first <= Len(deque)
    BY <2>3, <2>7
  <2>10. \A i \in 1..Len(Recent(a)) : Recent(a)[i] = logins[Len(logins) - Len(Recent(a)) + i]
    <3>1. ASSUME NEW i \in 1..Len(Recent(a))
          PROVE  Recent(a)[i] = logins[Len(logins) - Len(Recent(a)) + i]
      <4>1. first - 1 + i \in 1..Len(deque)
        BY <2>3, <2>7, <2>8
      <4>2. deque[first - 1 + i] = logins[Len(logins) - Len(deque) + (first - 1 + i)]
        BY <2>1, <4>1 DEF IsTailOf
      <4>3. Len(logins) - Len(deque) + (first - 1 + i) = Len(logins) - Len(Recent(a)) + i
        BY <2>3, <2>7, <2>8
      <4> QED
        BY <2>8, <4>2, <4>3
    <3> QED
      BY <3>1
  <2>11. \A i \in 1..Len(logins) - Len(Recent(a)) : logins[i] + Window <= tick
    <3>1. ASSUME NEW i \in 1..Len(logins) - Len(Recent(a))
          PROVE  logins[i] + Window <= tick
      <4>1. CASE i <= Len(logins) - Len(deque)
        BY <2>1, <2>3, <4>1 DEF IsTailOf
      <4>2. CASE ~(i <= Len(logins) - Len(deque))
        <5> DEFINE j == i - (Len(logins) - Len(deque))
        <5>1. j \in 1 .. first - 1 /\ j \in 1..Len(deque) /\ i = Len(logins) - Len(deque) + j
          <6>1. /\ i \in Nat /\ 1 <= i /\ i <= Len(logins) - (Len(deque) - first + 1)
                /\ Len(logins) \in Nat /\ Len(deque) \in Nat /\ Len(deque) <= Len(logins)
            BY <2>3, <2>8, <2>9
          <6> QED
            BY <2>9, <4>2, <6>1
        <5> HIDE DEF j
        <5>2. deque[j] = logins[i]
          BY <2>1, <5>1 DEF IsTailOf
        <5> QED
          BY <2>6, <5>1, <5>2
      <4> QED
        BY <4>1, <4>2
    <3> QED
      BY <3>1
  <2>12. IsTailOf(Recent(a), logins) /\ Len(Recent(a)) <= LoginAttempts
    <3>1. Len(Recent(a)) <= Len(logins) /\ Len(Recent(a)) <= LoginAttempts
      <4>1. /\ Len(deque) \in Nat /\ Len(logins) \in Nat /\ LoginAttempts \in Nat
            /\ Len(Recent(a)) = Len(deque) - first + 1
        BY <2>3, <2>8, LimitAssumption
      <4>2. Len(deque) <= Len(logins) /\ Len(deque) <= LoginAttempts
        BY <2>1, <2>3
      <4> QED
        BY <2>9, <4>1, <4>2
    <3> QED
      BY <2>8, <2>10, <2>11, <3>1 DEF IsTailOf
  <2>13. Recent(a)[1] + Window > tick
    <3>1. Recent(a)[1] = deque[first]
      <4>1. Len(Recent(a)) >= 1 /\ Len(Recent(a)) \in Nat
        BY <2>3, <2>8, <2>9
      <4>2. Recent(a)[1] = deque[first - 1 + 1] /\ first - 1 + 1 = first
        BY <2>8, <2>9, <4>1
      <4> QED
        BY <4>2
    <3> QED
      BY <2>6, <3>1
  <2>14. deque[1] + Window > tick => Recent(a) = deque
    <3>1. ASSUME deque[1] + Window > tick
          PROVE  first = 1
      <4>1. ASSUME first # 1
            PROVE  FALSE
        <5>1. 1 \in 1 .. first - 1
          BY <2>7, <4>1
        <5>2. deque[1] + Window <= tick /\ deque[1] \in Nat
          <6>1. deque[1] + Window <= tick
            BY <2>6, <5>1
          <6>2. deque[1] \in Nat
            BY <2>3
          <6> QED
            BY <6>1, <6>2
        <5> QED
          BY <2>1, <2>3, <3>1, <5>2
      <4> QED
        BY <4>1
    <3>2. SubSeq(deque, 1, Len(deque)) = deque
      BY <2>3
    <3> QED
      BY <2>2, <3>1, <3>2
  <2> QED
    BY <2>1, <2>12, <2>13, <2>14 DEF logins, deque
<1> QED
  BY <1>1, <1>2

\* An address that nobody tries from keeps its deque, or loses it with its last fresh attempt.
LEMMA OthersKeepTheirs ==
  ASSUME LimitInv, NEW a \in Addresses, NEW b \in Addresses, b # a, NEW deque,
         Counted(a, deque), tick' = tick
  PROVE  /\ IsTailOf(Deque(b)', granted[b]) /\ Len(Deque(b)') <= LoginAttempts
         /\ b \in Kept => b \in DOMAIN attempts' /\ attempts'[b] = attempts[b]
<1>1. DOMAIN attempts' = Kept \cup {a}
  BY DEF Counted
<1>2. CASE b \in Kept
  <2>1. b \in DOMAIN attempts' /\ attempts'[b] = attempts[b] /\ b \in DOMAIN attempts
    BY <1>1, <1>2 DEF Counted, Kept
  <2>2. Deque(b)' = Deque(b)
    BY <2>1 DEF Deque
  <2> QED
    BY <2>1, <2>2 DEF LimitInv
<1>3. CASE b \notin Kept
  <2>1. Deque(b)' = <<>> /\ Len(<<>>) = 0
    BY <1>1, <1>3 DEF Deque
  <2> QED
    BY <1>3, <2>1, DroppedAreOld, LimitAssumption
<1> QED
  BY <1>2, <1>3

\* A deque with a fresh first attempt is kept.
LEMMA FullIsKept ==
  ASSUME LimitInv, NEW a \in DOMAIN attempts, attempts[a][1] + Window > tick
  PROVE  a \in Kept
<1> DEFINE deque  == attempts[a]
           logins == granted[a]
<1>1. /\ IsTailOf(deque, logins) /\ WellSpaced(logins) /\ deque # <<>> /\ tick \in Nat
      /\ deque[1] + Window > tick
  BY DEF LimitInv, Deque
<1>2. deque[Len(deque)] + Window > tick => a \in Kept
  <2>1. ASSUME deque[Len(deque)] + Window > tick, deque[Len(deque)] + Window <= tick
        PROVE  FALSE
    <3>1. deque \in Seq(Nat) /\ Window \in Nat /\ Len(deque) \in 1..Len(deque)
      BY <1>1, LimitAssumption DEF IsTailOf
    <3>2. deque[Len(deque)] \in Nat
      BY <3>1
    <3> QED
      BY <1>1, <2>1, <3>1, <3>2
  <2> QED
    BY <2>1 DEF Kept, Stale
<1> HIDE DEF deque, logins
<1>3. /\ deque \in Seq(Nat) /\ logins \in Seq(Nat) /\ Len(deque) \in Nat /\ Len(deque) >= 1
      /\ Len(logins) \in Nat /\ Len(deque) <= Len(logins) /\ Window \in Nat
  BY <1>1, LimitAssumption DEF IsTailOf, WellSpaced
<1> DEFINE g == Len(logins) - Len(deque)
<1>4. g + 1 \in 1..Len(logins) /\ g + Len(deque) = Len(logins)
  BY <1>3
<1>5. deque[1] = logins[g + 1] /\ deque[Len(deque)] = logins[g + Len(deque)]
  <2>1. \A i \in 1..Len(deque) : deque[i] = logins[g + i]
    BY <1>1 DEF IsTailOf
  <2>2. 1 \in 1..Len(deque) /\ Len(deque) \in 1..Len(deque)
    BY <1>3
  <2> QED
    BY <2>1, <2>2
<1>6. logins[g + 1] <= logins[Len(logins)]
  BY <1>1, <1>3, <1>4 DEF WellSpaced
<1>7. logins[g + 1] \in Nat /\ logins[Len(logins)] \in Nat
  BY <1>3, <1>4
<1> HIDE DEF g
<1>8. deque[Len(deque)] + Window > tick
  BY <1>1, <1>3, <1>4, <1>5, <1>6, <1>7
<1> QED
  BY <1>2, <1>8

LEMMA LoginGranted ==
  ASSUME LimitInv, NEW a \in Addresses, Granted(a)
  PROVE  LimitInv'
<1> DEFINE logins == granted[a]
           rest   == Recent(a)
<1>1. /\ Len(rest) < LoginAttempts /\ tick' = tick /\ refusal' = refusal
      /\ Counted(a, Append(rest, tick)) /\ granted' = [granted EXCEPT ![a] = Append(@, tick)]
  BY DEF Granted
<1>2. IsTailOf(rest, logins) /\ WellSpaced(logins) /\ tick \in Nat
  BY RecentIsRest DEF LimitInv
<1>3. granted'[a] = Append(logins, tick) /\ \A b \in Addresses : b # a => granted'[b] = granted[b]
  BY <1>1 DEF LimitInv
<1>4. /\ attempts'[a] = Append(rest, tick) /\ a \in DOMAIN attempts'
      /\ Deque(a)' = Append(rest, tick)
  BY <1>1 DEF Counted, Deque
<1> HIDE DEF logins, rest
<1>5. /\ rest \in Seq(Nat) /\ logins \in Seq(Nat) /\ Len(rest) \in Nat /\ Len(logins) \in Nat
      /\ Len(rest) <= Len(logins)
  BY <1>2 DEF IsTailOf, WellSpaced
<1>6. /\ Append(rest, tick) \in Seq(Nat) /\ Append(rest, tick) # <<>>
      /\ Len(Append(rest, tick)) = Len(rest) + 1
      /\ \A i \in 1..Len(rest) : Append(rest, tick)[i] = rest[i]
      /\ Append(rest, tick)[Len(rest) + 1] = tick
  <2>1. /\ Append(rest, tick) \in Seq(Nat) /\ Len(Append(rest, tick)) = Len(rest) + 1
        /\ \A i \in 1..Len(rest) : Append(rest, tick)[i] = rest[i]
        /\ Append(rest, tick)[Len(rest) + 1] = tick
    BY <1>2, <1>5
  <2>2. Append(rest, tick) # <<>>
    BY <1>5, <2>1
  <2> QED
    BY <2>1, <2>2
<1>7. /\ Append(logins, tick) \in Seq(Nat) /\ Len(Append(logins, tick)) = Len(logins) + 1
      /\ \A i \in 1..Len(logins) : Append(logins, tick)[i] = logins[i]
      /\ Append(logins, tick)[Len(logins) + 1] = tick
  BY <1>2, <1>5
<1>8. IsTailOf(Append(rest, tick), Append(logins, tick))
  <2>1. \A i \in 1..Len(rest) + 1 :
           Append(rest, tick)[i] = Append(logins, tick)[Len(logins) - Len(rest) + i]
    <3>1. ASSUME NEW i \in 1..Len(rest)
          PROVE  Append(rest, tick)[i] = Append(logins, tick)[Len(logins) - Len(rest) + i]
      <4>1. Len(logins) - Len(rest) + i \in 1..Len(logins)
        BY <1>5
      <4>2. rest[i] = logins[Len(logins) - Len(rest) + i]
        BY <1>2 DEF IsTailOf
      <4> QED
        BY <1>6, <1>7, <4>1, <4>2
    <3>2. Len(logins) - Len(rest) + (Len(rest) + 1) = Len(logins) + 1
      BY <1>5
    <3>3. \A i \in 1..Len(rest) + 1 : i \in 1..Len(rest) \/ i = Len(rest) + 1
      BY <1>5
    <3> QED
      BY <1>6, <1>7, <3>1, <3>2, <3>3
  <2>2. \A i \in 1..Len(logins) - Len(rest) : Append(logins, tick)[i] + Window <= tick
    <3>1. ASSUME NEW i \in 1..Len(logins) - Len(rest)
          PROVE  Append(logins, tick)[i] + Window <= tick
      <4>1. i \in 1..Len(logins) /\ logins[i] + Window <= tick
        BY <1>2, <1>5 DEF IsTailOf
      <4> QED
        BY <1>7, <4>1
    <3> QED
      BY <3>1
  <2>3. Len(Append(logins, tick)) - Len(Append(rest, tick)) = Len(logins) - Len(rest)
        /\ Len(Append(rest, tick)) <= Len(Append(logins, tick))
    BY <1>5, <1>6, <1>7
  <2> QED
    BY <1>6, <2>1, <2>2, <2>3 DEF IsTailOf
<1>9. WellSpaced(Append(logins, tick))
  <2>1. \A i \in 1..Len(logins) + 1 : i \in 1..Len(logins) \/ i = Len(logins) + 1
    BY <1>5
  <2>2. \A i \in 1..Len(logins) : logins[i] <= tick /\ logins[i] \in Nat
    BY <1>2, <1>5 DEF WellSpaced
  <2>3. \A i \in 1..Len(logins) + 1 : Append(logins, tick)[i] <= tick
    BY <1>2, <1>7, <2>1, <2>2
  <2>4. ASSUME NEW i \in 1..Len(logins) + 1, NEW j \in 1..Len(logins) + 1, i <= j
        PROVE  Append(logins, tick)[i] <= Append(logins, tick)[j]
    <3>1. CASE j = Len(logins) + 1
      BY <1>7, <2>3, <3>1
    <3>2. CASE j \in 1..Len(logins)
      <4>1. i \in 1..Len(logins)
        BY <1>5, <2>4, <3>2
      <4> QED
        BY <1>2, <1>7, <2>4, <3>2, <4>1 DEF WellSpaced
    <3> QED
      BY <2>1, <3>1, <3>2
  <2>5. ASSUME NEW i \in 1..Len(logins) + 1, i > LoginAttempts
        PROVE  Append(logins, tick)[i] >= Append(logins, tick)[i - LoginAttempts] + Window
    <3>1. i - LoginAttempts \in 1..Len(logins) /\ LoginAttempts \in Nat
      BY <1>5, <2>5, LimitAssumption
    <3>2. CASE i \in 1..Len(logins)
      BY <1>2, <1>7, <2>5, <3>1, <3>2 DEF WellSpaced
    <3>3. CASE i = Len(logins) + 1
      <4>1. i - LoginAttempts \in 1..Len(logins) - Len(rest)
        BY <1>1, <1>5, <3>1, <3>3
      <4>2. logins[i - LoginAttempts] + Window <= tick
        BY <1>2, <4>1 DEF IsTailOf
      <4>3. logins[i - LoginAttempts] \in Nat /\ Window \in Nat
        BY <2>2, <3>1, LimitAssumption
      <4> QED
        BY <1>2, <1>7, <3>1, <3>3, <4>2, <4>3
    <3> QED
      BY <2>1, <3>2, <3>3
  <2> QED
    BY <1>7, <2>3, <2>4, <2>5 DEF WellSpaced
<1>10. ASSUME NEW b \in Addresses
       PROVE  /\ IsTailOf(Deque(b)', granted'[b]) /\ Len(Deque(b)') <= LoginAttempts
              /\ WellSpaced(granted'[b])
  <2>1. CASE b = a
    <3>1. Len(Append(rest, tick)) <= LoginAttempts
      BY <1>1, <1>5, <1>6, LimitAssumption
    <3> QED
      BY <1>3, <1>4, <1>8, <1>9, <2>1, <3>1
  <2>2. CASE b # a
    BY <1>1, <1>3, <2>2, OthersKeepTheirs DEF LimitInv
  <2> QED
    BY <2>1, <2>2
<1>11. RefusalInv'
  <2> SUFFICES ASSUME refusal # NoRefusal, refusal.at = tick
               PROVE  /\ refusal.of \in DOMAIN attempts' /\ refusal.of \in Kept
                      /\ attempts'[refusal.of] = attempts[refusal.of]
    BY <1>1 DEF LimitInv, RefusalInv
  <2>1. /\ refusal.of \in DOMAIN attempts /\ Len(attempts[refusal.of]) = LoginAttempts
        /\ attempts[refusal.of][1] + Window > tick
        /\ refusal.of \in Addresses
    BY DEF LimitInv, RefusalInv
  <2>2. refusal.of \in Kept
    BY <2>1, FullIsKept
  <2>3. refusal.of # a
    <3>1. ASSUME refusal.of = a
          PROVE  FALSE
      <4>1. Deque(a)[1] + Window > tick
        BY <2>1, <3>1 DEF Deque
      <4>2. rest = attempts[a]
        BY <2>2, <3>1, <4>1, RecentIsRest DEF rest
      <4> QED
        BY <1>1, <2>1, <3>1, <4>2, LimitAssumption
    <3> QED
      BY <3>1
  <2> QED
    BY <1>1, <2>1, <2>2, <2>3, OthersKeepTheirs
<1>12. DOMAIN attempts' \subseteq Addresses /\ \A b \in DOMAIN attempts' : attempts'[b] # <<>>
  BY <1>1, <1>6 DEF Counted, LimitInv, Kept
<1>13. granted' = [b \in Addresses |-> granted'[b]]
  BY <1>1 DEF LimitInv
<1> QED
  <2>1. refusal'.at \in Nat /\ refusal'.at <= tick' /\ refusal'.seconds \in Nat
    BY <1>1 DEF LimitInv
  <2> QED
    BY <1>1, <1>2, <1>10, <1>11, <1>12, <1>13, <2>1 DEF LimitInv, IsTailOf, WellSpaced

LEMMA LoginRefused ==
  ASSUME LimitInv, NEW a \in Addresses, Refused(a)
  PROVE  LimitInv'
<1> DEFINE rest == Recent(a)
<1>1. /\ Len(rest) >= LoginAttempts /\ tick' = tick /\ granted' = granted
      /\ Counted(a, rest)
      /\ refusal' = [of |-> a, at |-> tick, seconds |-> SecondsToWait(rest)]
  BY DEF Refused
<1>2. /\ IsTailOf(rest, granted[a]) /\ Len(rest) <= LoginAttempts /\ tick \in Nat
      /\ rest # <<>> => rest[1] + Window > tick
  BY RecentIsRest DEF LimitInv
<1>3. /\ attempts'[a] = rest /\ a \in DOMAIN attempts' /\ Deque(a)' = rest
  BY <1>1 DEF Counted, Deque
<1> HIDE DEF rest
<1>4. rest \in Seq(Nat) /\ Len(rest) = LoginAttempts /\ rest # <<>> /\ rest[1] \in Nat
  <2>1. rest \in Seq(Nat) /\ Len(rest) \in Nat
    BY <1>2 DEF IsTailOf
  <2>2. Len(rest) = LoginAttempts /\ Len(rest) >= 1
    BY <1>1, <1>2, <2>1, LimitAssumption
  <2> QED
    BY <2>1, <2>2
<1>5. ASSUME NEW b \in Addresses
      PROVE  /\ IsTailOf(Deque(b)', granted[b]) /\ Len(Deque(b)') <= LoginAttempts
             /\ WellSpaced(granted[b])
  <2>1. WellSpaced(granted[b])
    BY DEF LimitInv
  <2>2. CASE b = a
    BY <1>2, <1>3, <2>1, <2>2
  <2>3. CASE b # a
    BY <1>1, <2>1, <2>3, OthersKeepTheirs
  <2> QED
    BY <2>2, <2>3
<1>6. RefusalInv' /\ SecondsToWait(rest) \in Nat
  <2>1. rest[1] + Window - tick \in Nat
    BY <1>2, <1>4, LimitAssumption
  <2>2. SecondsToWait(rest) * TicksPerSecond >= rest[1] + Window - tick
        /\ SecondsToWait(rest) \in Nat
    BY <2>1, CeilIsEnough, LimitAssumption DEF SecondsToWait
  <2>3. SecondsToWait(rest) * TicksPerSecond \in Nat
    BY <2>2, LimitAssumption
  <2>4. rest[1] + Window <= tick + SecondsToWait(rest) * TicksPerSecond
    BY <1>2, <1>4, <2>2, <2>3, LimitAssumption
  <2>5. refusal'.of = a /\ refusal'.at = tick /\ refusal'.seconds = SecondsToWait(rest)
    BY <1>1
  <2> QED
    BY <1>1, <1>2, <1>3, <1>4, <2>2, <2>4, <2>5 DEF RefusalInv
<1>7. DOMAIN attempts' \subseteq Addresses /\ \A b \in DOMAIN attempts' : attempts'[b] # <<>>
  BY <1>1, <1>4 DEF Counted, LimitInv, Kept
<1> QED
  <2>1. refusal'.at \in Nat /\ refusal'.at <= tick' /\ refusal'.seconds \in Nat
    BY <1>1, <1>2, <1>6
  <2> QED
    BY <1>1, <1>2, <1>5, <1>6, <1>7, <2>1 DEF LimitInv, IsTailOf, WellSpaced

LEMMA TimePasses ==
  ASSUME LimitInv, TickOn
  PROVE  LimitInv'
<1>1. /\ tick' = tick + 1 /\ tick \in Nat /\ tick' \in Nat
      /\ attempts' = attempts /\ granted' = granted /\ refusal' = refusal
  BY DEF TickOn, LimitInv
<1>2. \A a \in Addresses : Deque(a)' = Deque(a)
  BY <1>1 DEF Deque
<1>3. ASSUME NEW a \in Addresses
      PROVE  /\ IsTailOf(Deque(a), granted[a])' /\ WellSpaced(granted[a])'
             /\ Len(Deque(a)') <= LoginAttempts
  <2> DEFINE logins == granted[a]
             deque  == Deque(a)
  <2>1. IsTailOf(deque, logins) /\ WellSpaced(logins) /\ Len(deque) <= LoginAttempts
    BY DEF LimitInv
  <2>2. deque' = deque /\ logins' = logins
    BY <1>1, <1>2
  <2> HIDE DEF deque, logins
  <2>3. deque \in Seq(Nat) /\ logins \in Seq(Nat) /\ \A i \in 1..Len(logins) : logins[i] \in Nat
    BY <2>1 DEF IsTailOf, WellSpaced
  <2>4. \A i \in 1..Len(logins) : logins[i] <= tick => logins[i] <= tick'
    BY <1>1, <2>3
  <2>5. \A i \in 1..Len(logins) - Len(deque) : i \in 1..Len(logins)
    BY <2>3
  <2>6. \A i \in 1..Len(logins) : logins[i] + Window <= tick => logins[i] + Window <= tick'
    BY <1>1, <2>3, LimitAssumption
  <2>7. IsTailOf(deque, logins)'
    BY <2>1, <2>2, <2>5, <2>6 DEF IsTailOf
  <2>8. WellSpaced(logins)'
    BY <2>1, <2>2, <2>4 DEF WellSpaced
  <2> QED
    BY <2>1, <2>2, <2>7, <2>8 DEF deque, logins
<1>4. RefusalInv'
  BY <1>1 DEF RefusalInv, LimitInv
<1>5. refusal'.at \in Nat /\ refusal'.at <= tick' /\ refusal'.seconds \in Nat
  BY <1>1 DEF LimitInv
<1> QED
  BY <1>1, <1>3, <1>4, <1>5 DEF LimitInv

LEMMA LimitInvariant == LimitSpec => []LimitInv
<1>1. LimitInit => LimitInv
  <2> SUFFICES ASSUME LimitInit
               PROVE  LimitInv
    OBVIOUS
  <2>1. <<>> \in Seq(Nat) /\ Len(<<>>) = 0 /\ DOMAIN attempts = {}
    BY DEF LimitInit
  <2>2. \A a \in Addresses : Deque(a) = <<>> /\ granted[a] = <<>>
    BY <2>1 DEF LimitInit, Deque
  <2>3. IsTailOf(<<>>, <<>>) /\ WellSpaced(<<>>)
    BY <2>1 DEF IsTailOf, WellSpaced
  <2>4. refusal = NoRefusal /\ refusal.at = 0 /\ refusal.seconds = 0 /\ tick = 0
    BY DEF LimitInit, NoRefusal
  <2>5. granted = [a \in Addresses |-> granted[a]]
    BY DEF LimitInit
  <2> QED
    BY <2>1, <2>2, <2>3, <2>4, <2>5, LimitAssumption DEF LimitInv, RefusalInv
<1>2. LimitInv /\ [LimitNext]_limitVars => LimitInv'
  <2> SUFFICES ASSUME LimitInv, [LimitNext]_limitVars
               PROVE  LimitInv'
    OBVIOUS
  <2>1. CASE UNCHANGED limitVars
    BY <2>1 DEF limitVars, LimitInv, RefusalInv, IsTailOf, WellSpaced, Deque
  <2> QED
    BY <2>1, LoginGranted, LoginRefused, TimePasses DEF LimitNext
<1> QED
  BY <1>1, <1>2, PTL DEF LimitSpec

\* "5 attempts per minute per client IP" (LoginRateLimiter.hit): for any number of attempts,
\* any window, any unit of time and any addresses.
THEOREM WindowsAreExact == LimitSpec => []WindowIsExact
<1>1. LimitInv => WindowIsExact
  <2> SUFFICES ASSUME LimitInv
               PROVE  WindowIsExact
    OBVIOUS
  <2>1. ASSUME NEW a \in Addresses, NEW i \in DOMAIN granted[a], i > LoginAttempts
        PROVE  granted[a][i] >= granted[a][i - LoginAttempts] + Window
    <3>1. WellSpaced(granted[a])
      BY DEF LimitInv
    <3> QED
      BY <2>1, <3>1 DEF WellSpaced
  <2> DEFINE later == refusal.at + refusal.seconds * TicksPerSecond
             deque == attempts[refusal.of]
             left  == {i \in DOMAIN deque : deque[i] + Window > later}
  <2>2. ASSUME refusal # NoRefusal, refusal.at = tick
        PROVE  Cardinality(left) < LoginAttempts
    <3>1. /\ deque = Deque(refusal.of) /\ refusal.of \in Addresses
          /\ Len(deque) = LoginAttempts /\ deque[1] + Window <= later
          /\ deque[1] + Window > tick /\ tick \in Nat
      BY <2>2 DEF LimitInv, RefusalInv, Deque
    <3>2. deque \in Seq(Nat)
      BY <3>1 DEF LimitInv, IsTailOf
    <3> HIDE DEF deque, later
    <3>3. DOMAIN deque = 1..LoginAttempts /\ LoginAttempts \in Nat \ {0}
      BY <3>1, <3>2, LimitAssumption
    <3>4. later \in Int => 1 \notin left
      <4>1. deque[1] \in Nat /\ Window \in Nat
        BY <3>2, <3>3, LimitAssumption
      <4> QED
        BY <3>1, <4>1
    <3>5. later \in Int
      BY LimitAssumption DEF LimitInv, later
    <3> DEFINE all == 1..LoginAttempts
    <3>6. left \subseteq all \ {1} /\ 1 \in all
      BY <3>3, <3>4, <3>5
    <3>7. IsFiniteSet(all) /\ Cardinality(all) = LoginAttempts
      BY <3>3, FS_Interval
    <3> HIDE DEF left, all
    <3>8. IsFiniteSet(all \ {1}) /\ Cardinality(all \ {1}) = LoginAttempts - 1
      BY <3>6, <3>7, FS_RemoveElement
    <3>9. IsFiniteSet(left) /\ Cardinality(left) <= Cardinality(all \ {1})
      BY <3>6, <3>8, FS_Subset
    <3>10. Cardinality(left) \in Nat
      BY <3>9, FS_CardinalityType
    <3> QED
      BY <3>3, <3>8, <3>9, <3>10
  <2> QED
    BY <2>1, <2>2 DEF WindowIsExact
<1> QED
  BY <1>1, LimitInvariant, PTL
=============================================================================
