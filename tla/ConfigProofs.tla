---------------------------- MODULE ConfigProofs ----------------------------
(***************************************************************************)
(* Theorems about Config, for any settings, values and resources.          *)
(***************************************************************************)
EXTENDS Config, TLAPS

IInv == TypeOK /\ Precedence /\ SharingUniform

LEMMA InitIInv == Init => IInv
  BY ConstantsAssumption DEF Init, IInv, TypeOK, Precedence, SharingUniform, Given

(* What a file says, before the flags: fields of it are left out or set.   *)
Base == IF useFile THEN Parsed(file) ELSE EmptyConfig
LEMMA BaseType ==
  ASSUME TypeOK, useFile => Acceptable(file)
  PROVE  /\ Base \in File
         /\ \A f \in Flags: Base.flags[f] = IF useFile THEN file.flags[f] ELSE Unset
         /\ Base.renameByDefault = IF useFile THEN file.renameByDefault ELSE FALSE
         /\ \A r \in Resources:
              IF useFile /\ file.resources[r] # Unlisted
              THEN /\ Base.resources[r] \in Replicated
                   /\ Base.resources[r].replicas = file.resources[r].replicas
                   /\ Base.resources[r].replicas >= 2
              ELSE Base.resources[r] = Unlisted
<1>1. CASE useFile
  <2>1. file \in File /\ Acceptable(file) /\ Base = Parsed(file)
    BY <1>1 DEF TypeOK, Acceptable, Base
  <2> DEFINE Filled(r) ==
        IF file.resources[r] # Unlisted /\ file.renameByDefault
           /\ file.resources[r].rename = ""
        THEN [file.resources[r] EXCEPT !.rename = "shared"] ELSE file.resources[r]
  <2>2. Base = [file EXCEPT !.resources = [r \in Resources |-> Filled(r)]]
    BY <2>1 DEF Parsed
  <2>3. \A r \in Resources:
          IF file.resources[r] = Unlisted THEN Filled(r) = Unlisted
          ELSE /\ Filled(r) \in Replicated
               /\ Filled(r).replicas = file.resources[r].replicas
               /\ Filled(r).replicas >= 2
    BY <2>1 DEF File, Replicated, Renames, Acceptable
  <2>4. \A r \in Resources: Filled(r) \in Replicated \cup {Unlisted}
    BY <2>3
  <2> HIDE DEF Filled
  <2>5. /\ Base \in File /\ Base.flags = file.flags
        /\ Base.renameByDefault = file.renameByDefault
        /\ Base.resources = [r \in Resources |-> Filled(r)]
    BY <2>1, <2>2, <2>4 DEF File
  <2>6. QED BY <1>1, <2>3, <2>5
<1>2. CASE ~useFile
  BY <1>2 DEF Base, EmptyConfig, File
<1>3. QED BY <1>1, <1>2

(* A flag that is set wins, then the field, then the default.              *)
LEMMA FlagValue ==
  ASSUME TypeOK, NEW f \in Flags, NEW field \in Values \cup {Unset}
  PROVE  /\ updateFromCLIFlag(f, field) \in Values
         /\ updateFromCLIFlag(f, field) =
              IF options[f] # Unset THEN options[f]
              ELSE IF env[f] # Unset THEN env[f]
              ELSE IF field # Unset THEN field ELSE Default[f]
  BY ConstantsAssumption DEF TypeOK, Given, updateFromCLIFlag, IsSet, CLIValue

(* Names and selections of devices are put back, and nothing else.         *)
LEMMA RenamingDisabled ==
  ASSUME NEW c \in File
  PROVE  /\ disableResourceRenamingInConfig(c) \in File
         /\ disableResourceRenamingInConfig(c).flags = c.flags
         /\ \A r \in Resources:
              LET uniform == disableResourceRenamingInConfig(c).resources[r]
              IN IF c.resources[r] = Unlisted THEN uniform = Unlisted
                 ELSE /\ uniform # Unlisted
                      /\ uniform.devices = "all"
                      /\ uniform.rename = IF c.renameByDefault THEN "shared" ELSE ""
                      /\ uniform.replicas = c.resources[r].replicas
<1> DEFINE Uniform(r) ==
      IF c.resources[r] = Unlisted THEN Unlisted
      ELSE [c.resources[r] EXCEPT !.devices = "all",
                                  !.rename = IF c.renameByDefault THEN "shared" ELSE ""]
<1>1. disableResourceRenamingInConfig(c)
        = [c EXCEPT !.resources = [r \in Resources |-> Uniform(r)]]
  BY DEF disableResourceRenamingInConfig
<1>2. \A r \in Resources:
        IF c.resources[r] = Unlisted THEN Uniform(r) = Unlisted
        ELSE /\ Uniform(r) \in Replicated
             /\ Uniform(r).devices = "all"
             /\ Uniform(r).rename = IF c.renameByDefault THEN "shared" ELSE ""
             /\ Uniform(r).replicas = c.resources[r].replicas
  BY DEF File, Replicated, Renames
<1>3. \A r \in Resources: Uniform(r) \in Replicated \cup {Unlisted}
  BY <1>2
<1> HIDE DEF Uniform
<1>4. /\ disableResourceRenamingInConfig(c) \in File
      /\ disableResourceRenamingInConfig(c).flags = c.flags
      /\ disableResourceRenamingInConfig(c).resources = [r \in Resources |-> Uniform(r)]
  BY <1>1, <1>3 DEF File
<1> HIDE DEF disableResourceRenamingInConfig
<1>5. ASSUME NEW r \in Resources
      PROVE  disableResourceRenamingInConfig(c).resources[r] = Uniform(r)
  BY <1>4, <1>5, Zenon
<1>6. ASSUME NEW r \in Resources, c.resources[r] # Unlisted
      PROVE  Uniform(r) # Unlisted
  BY <1>2, <1>6, ConstantsAssumption, Zenon
<1>7. ASSUME NEW r \in Resources
      PROVE  LET uniform == disableResourceRenamingInConfig(c).resources[r]
             IN IF c.resources[r] = Unlisted THEN uniform = Unlisted
                ELSE /\ uniform # Unlisted
                     /\ uniform.devices = "all"
                     /\ uniform.rename = IF c.renameByDefault THEN "shared" ELSE ""
                     /\ uniform.replicas = c.resources[r].replicas
  <2>1. CASE c.resources[r] = Unlisted
    BY <1>2, <1>5, <2>1, Zenon
  <2>2. CASE c.resources[r] # Unlisted
    BY <1>2, <1>5, <1>6, <2>2, Zenon
  <2>3. QED BY <2>1, <2>2
<1>8. QED BY <1>4, <1>7, Zenon

LEMMA LoadIInv ==
  ASSUME IInv, Load
  PROVE  IInv'
<1> USE DEF IInv
<1> DEFINE updated == [Base EXCEPT !.flags = [f \in Flags |-> updateFromCLIFlag(f, @[f])]]
           Flag(f) == updateFromCLIFlag(f, Base.flags[f])
<1>1. /\ useFile => Acceptable(file)
      /\ config' = disableResourceRenamingInConfig(updated)
      /\ pc' = "run" /\ read' = file /\ UNCHANGED <<input, file>>
  BY DEF Load, Base
<1>2. Base \in File
  BY <1>1, BaseType
<1>3. \A f \in Flags: Base.flags[f] \in Values \cup {Unset}
  BY <1>2 DEF File
<1>4. \A f \in Flags: Flag(f) \in Values
  BY <1>3, FlagValue
<1>5. updated = [Base EXCEPT !.flags = [f \in Flags |-> Flag(f)]]
  BY DEF File
<1> HIDE DEF Flag
<1>6. /\ updated \in File /\ updated.flags = [f \in Flags |-> Flag(f)]
      /\ updated.renameByDefault = Base.renameByDefault
      /\ updated.resources = Base.resources
  <2> DEFINE flags == [f \in Flags |-> Flag(f)]
  <2>1. flags \in [Flags -> Values \cup {Unset}] /\ updated = [Base EXCEPT !.flags = flags]
    BY <1>4, <1>5
  <2> HIDE DEF flags, updated
  <2>2. /\ updated \in File /\ updated.flags = flags
        /\ updated.renameByDefault = Base.renameByDefault
        /\ updated.resources = Base.resources
    BY <1>2, <2>1 DEF File
  <2>3. QED BY <2>2 DEF flags
<1> HIDE DEF updated
<1>7. config' \in File /\ config'.flags = [f \in Flags |-> Flag(f)]
  BY <1>1, <1>6, RenamingDisabled
<1>8. TypeOK'
  BY <1>1, <1>4, <1>7 DEF TypeOK, input
<1>9. Precedence'
  <2> SUFFICES ASSUME NEW f \in Flags
      PROVE  LET given == <<options[f], env[f],
                            IF useFile THEN file.flags[f] ELSE Unset, Default[f]>>
             IN \E i \in 1..4: /\ Flag(f) = given[i]
                               /\ given[i] # Unset
                               /\ \A j \in 1..(i - 1): given[j] = Unset
    BY <1>1, <1>7 DEF Precedence, input
  <2>1. Flag(f) = IF options[f] # Unset THEN options[f]
                  ELSE IF env[f] # Unset THEN env[f]
                  ELSE IF useFile /\ file.flags[f] # Unset THEN file.flags[f]
                  ELSE Default[f]
    BY <1>1, <1>3, BaseType, FlagValue DEF Flag
  <2>2. Default[f] # Unset
    BY ConstantsAssumption
  <2> DEFINE field == IF useFile THEN file.flags[f] ELSE Unset
             given == <<options[f], env[f], field, Default[f]>>
             Wins(i) == /\ Flag(f) = given[i] /\ given[i] # Unset
                        /\ \A j \in 1..(i - 1): given[j] = Unset
  <2>3. CASE options[f] # Unset
    <3>1. Wins(1)
      BY <2>1, <2>3
    <3>2. QED BY <3>1
  <2>4. CASE options[f] = Unset /\ env[f] # Unset
    <3>1. Wins(2)
      BY <2>1, <2>4
    <3>2. QED BY <3>1
  <2>5. CASE options[f] = Unset /\ env[f] = Unset /\ field # Unset
    <3>1. Wins(3)
      BY <2>1, <2>5
    <3>2. QED BY <3>1
  <2>6. CASE options[f] = Unset /\ env[f] = Unset /\ field = Unset
    <3>1. Wins(4)
      BY <2>1, <2>2, <2>6
    <3>2. QED BY <3>1
  <2>7. QED BY <2>3, <2>4, <2>5, <2>6
<1>10. SharingUniform'
  <2> SUFFICES ASSUME NEW r \in Resources
      PROVE  LET says == config'.resources[r]
             IN /\ says = Unlisted <=> ~useFile \/ file.resources[r] = Unlisted
                /\ says # Unlisted =>
                     /\ says.replicas = file.resources[r].replicas /\ says.replicas >= 2
                     /\ says.devices = "all"
                     /\ says.rename = IF file.renameByDefault THEN "shared" ELSE ""
    BY <1>1 DEF SharingUniform, input
  <2>1. LET says == config'.resources[r]
        IN IF Base.resources[r] = Unlisted THEN says = Unlisted
           ELSE /\ says # Unlisted
                /\ says.devices = "all"
                /\ says.rename = IF Base.renameByDefault THEN "shared" ELSE ""
                /\ says.replicas = Base.resources[r].replicas
    <3>1. PICK c \in File: /\ config' = disableResourceRenamingInConfig(c)
                           /\ c.resources = Base.resources
                           /\ c.renameByDefault = Base.renameByDefault
      BY <1>1, <1>6
    <3> DEFINE uniform == disableResourceRenamingInConfig(c)
    <3>2. LET says == uniform.resources[r]
          IN IF c.resources[r] = Unlisted THEN says = Unlisted
             ELSE /\ says # Unlisted
                  /\ says.devices = "all"
                  /\ says.rename = IF c.renameByDefault THEN "shared" ELSE ""
                  /\ says.replicas = c.resources[r].replicas
      BY RenamingDisabled
    <3> HIDE DEF uniform
    <3>3. config' = uniform
      BY <3>1 DEF uniform
    <3>4. QED BY <3>1, <3>2, <3>3
  <2>2. CASE useFile /\ file.resources[r] # Unlisted
    BY <1>1, <2>1, <2>2, BaseType, ConstantsAssumption
  <2>3. CASE ~(useFile /\ file.resources[r] # Unlisted)
    BY <1>1, <2>1, <2>3, BaseType
  <2>4. QED BY <2>2, <2>3
<1>11. QED BY <1>8, <1>9, <1>10

LEMMA StepIInv == IInv /\ [Next]_vars => IInv'
<1> SUFFICES ASSUME IInv, [Next]_vars PROVE IInv'
  OBVIOUS
<1> USE DEF IInv, TypeOK, Precedence, SharingUniform
<1>1. CASE Load
  BY <1>1, LoadIInv
<1>2. CASE LoadFails
  BY <1>2 DEF LoadFails, input
<1>3. CASE RunEnds
  BY <1>3 DEF RunEnds, input
<1>4. CASE Edit
  BY <1>4 DEF Edit, input
<1>5. CASE UNCHANGED vars
  BY <1>5 DEF vars
<1>6. QED BY <1>1, <1>2, <1>3, <1>4, <1>5 DEF Next

THEOREM Invariance == Spec => []IInv
  BY InitIInv, StepIInv, PTL DEF Spec

(* A run has a configuration, with a value for every flag.                 *)
THEOREM TypeCorrect == Spec => []TypeOK
<1>1. IInv => TypeOK
  BY DEF IInv
<1>2. QED BY <1>1, Invariance, PTL

(* The command line comes before the environment, that before the file,    *)
(* and that before the default, at every load of any sequence of them.     *)
THEOREM PrecedenceHolds == Spec => []Precedence
<1>1. IInv => Precedence
  BY DEF IInv
<1>2. QED BY <1>1, Invariance, PTL

(* Whatever names and devices a file gives, no label depends on them.      *)
THEOREM RenamingIsDisabled == Spec => []SharingUniform
<1>1. IInv => SharingUniform
  BY DEF IInv
<1>2. QED BY <1>1, Invariance, PTL
=============================================================================
