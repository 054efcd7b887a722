------------------------- MODULE HubSessionsProofs -------------------------
(***************************************************************************)
(* For any models, device, settings, clients, memory of failures and       *)
(* storage: what the Hub's store keeps is parted by a merge only; the      *)
(* screen, however old its registry, the client and the host agree on what *)
(* may run; no client gets what it did not ask for; and a load that ran    *)
(* out of memory is not admitted again by itself.                          *)
(***************************************************************************)
EXTENDS HubSessions, SequenceTheorems, WellFoundedInduction, TLAPS

-----------------------------------------------------------------------------
(* Natural numbers and sequences.                                          *)

\* A set of natural numbers has a least element.
LEMMA LeastElement ==
    ASSUME NEW T \in SUBSET Nat, T # {}
    PROVE  \E n \in T : \A m \in T : n <= m
<1>1. PICK n \in T : \A m \in T : ~(<<m, n>> \in OpToRel(<, Nat))
  BY NatLessThanWellFounded, WFMin
<1>2. \A m \in T : ~(m < n)
  BY <1>1 DEF OpToRel
<1> QED
  BY <1>2

\* Counting up to n: a set that holds 0 and every successor holds them all.
LEMMA UpTo ==
    ASSUME NEW n \in Nat, NEW S, 0 \in S, \A m \in 0 .. n : m \in S /\ m < n => m + 1 \in S
    PROVE  0 .. n \subseteq S
<1> SUFFICES ASSUME NEW x \in 0 .. n, x \notin S PROVE FALSE
  OBVIOUS
<1> DEFINE T == {m \in 0 .. n : m \notin S}
<1>1. T \in SUBSET Nat /\ T # {}
  OBVIOUS
<1>2. PICK m \in T : \A k \in T : m <= k
  BY <1>1, LeastElement
<1>3. m # 0 /\ m - 1 \in 0 .. n
  BY <1>2
<1>4. m - 1 \in S
  BY <1>2, <1>3
<1>5. m \in S
  BY <1>3, <1>4
<1> QED
  BY <1>2, <1>5

\* The newest of a list are at most as many as are remembered.
LEMMA NewestTyped ==
    ASSUME NEW S, NEW list \in Seq(S)
    PROVE  Newest(list) \in Seq(S) /\ Len(Newest(list)) <= MaxFailures
<1>1. CASE Len(list) <= MaxFailures
  BY <1>1, BoundsAssumption DEF Newest
<1>2. CASE Len(list) > MaxFailures
  <2>1. Last(list) \in Seq(S) /\ Len(Last(list)) = MaxFailures
    BY <1>2, BoundsAssumption, SubSeqProperties DEF Last
  <2> QED
    BY <1>2, <2>1, BoundsAssumption DEF Newest
<1> QED
  BY <1>1, <1>2, BoundsAssumption

\* What is kept of the first i elements of a list.
Kept(list, m, p, n, h) ==
    h = [i \in 0 .. n |->
            IF i = 0 THEN << >>
            ELSE IF list[i].model # m \/ list[i].profile # p THEN Append(h[i - 1], list[i])
            ELSE h[i - 1]]

\* One more element of the list is kept or left out.
LEMMA KeptOneMore ==
    ASSUME NEW list, NEW m, NEW p, NEW n \in Nat, NEW f, Kept(list, m, p, n, f)
    PROVE  \E h : Kept(list, m, p, n + 1, h)
<1> DEFINE next == IF list[n + 1].model # m \/ list[n + 1].profile # p THEN Append(f[n], list[n + 1]) ELSE f[n]
           h == [i \in 0 .. n + 1 |-> IF i = n + 1 THEN next ELSE f[i]]
           rest(g, i) == IF i = 0 THEN << >>
                         ELSE IF list[i].model # m \/ list[i].profile # p THEN Append(g[i - 1], list[i])
                         ELSE g[i - 1]
<1>1. \A i \in 0 .. n : h[i] = f[i]
  OBVIOUS
<1>2. f = [i \in 0 .. n |-> rest(f, i)]
  BY Zenon DEF Kept
<1>3. ASSUME NEW i \in 0 .. n + 1 PROVE h[i] = rest(h, i)
  <2>1. CASE i = n + 1
    <3>1. h[i] = next /\ h[n] = f[n] /\ i - 1 = n /\ i # 0
      BY <1>1, <2>1
    <3> QED
      BY <2>1, <3>1
  <2>2. CASE i \in 0 .. n
    <3>1. h[i] = f[i] /\ (i # 0 => h[i - 1] = f[i - 1])
      BY <1>1, <2>2
    <3>2. f[i] = rest(f, i)
      BY <1>2, <2>2
    <3> QED
      BY <3>1, <3>2
  <2> QED
    BY <2>1, <2>2
<1>4. h = [i \in 0 .. n + 1 |-> h[i]]
  OBVIOUS
<1> HIDE DEF h, rest
<1>5. h = [i \in 0 .. n + 1 |-> rest(h, i)]
  BY <1>3, <1>4
<1>6. Kept(list, m, p, n + 1, h)
  BY <1>5 DEF Kept, rest
<1> QED
  BY <1>6

\* So the recursive function of Without exists, for any list.
LEMMA KeptExists ==
    ASSUME NEW list, NEW m, NEW p, NEW n \in Nat
    PROVE  \E h : Kept(list, m, p, n, h)
<1> DEFINE T == {k \in 0 .. n : \E h : Kept(list, m, p, k, h)}
<1>1. 0 \in T
  <2>1. Kept(list, m, p, 0, [i \in 0 .. 0 |-> << >>])
    BY DEF Kept
  <2> QED
    BY <2>1
<1>2. ASSUME NEW k \in 0 .. n, k \in T, k < n PROVE k + 1 \in T
  <2>1. \E h : Kept(list, m, p, k + 1, h)
    BY <1>2, KeptOneMore
  <2> QED
    BY <1>2, <2>1
<1> HIDE DEF T
<1>3. \A k \in 0 .. n : k \in T /\ k < n => k + 1 \in T
  BY <1>2
<1>4. n \in T
  BY <1>1, <1>3, UpTo
<1> QED
  BY <1>4 DEF T

\* It builds a sequence of elements of the list, no longer than the list.
LEMMA KeptTyped ==
    ASSUME NEW S, NEW list \in Seq(S), NEW m, NEW p, NEW n \in Nat, n <= Len(list), NEW h, Kept(list, m, p, n, h)
    PROVE  h[n] \in Seq(S) /\ Len(h[n]) <= n
<1>1. h[0] = << >>
  BY DEF Kept
<1>2. ASSUME NEW i \in 1 .. n PROVE h[i] = h[i - 1] \/ h[i] = Append(h[i - 1], list[i])
  <2>1. i \in 0 .. n /\ i # 0
    OBVIOUS
  <2>2. h[i] = IF i = 0 THEN << >>
               ELSE IF list[i].model # m \/ list[i].profile # p THEN Append(h[i - 1], list[i])
               ELSE h[i - 1]
    BY <2>1, Zenon DEF Kept
  <2> QED
    BY <2>1, <2>2, Zenon
<1> DEFINE T == {k \in 0 .. n : h[k] \in Seq(S) /\ Len(h[k]) <= k}
<1>3. 0 \in T
  <2>1. << >> \in Seq(S) /\ Len(<< >>) <= 0 /\ 0 \in 0 .. n
    OBVIOUS
  <2> QED
    BY <1>1, <2>1, Zenon
<1>4. ASSUME NEW k \in 0 .. n, k \in T, k < n PROVE k + 1 \in T
  <2>1. h[k] \in Seq(S) /\ Len(h[k]) <= k /\ list[k + 1] \in S /\ k + 1 \in 1 .. n /\ (k + 1) - 1 = k
    BY <1>4
  <2>2. h[k + 1] = h[k] \/ h[k + 1] = Append(h[k], list[k + 1])
    BY <1>2, <2>1
  <2>3. CASE h[k + 1] = h[k]
    <3>1. Len(h[k]) <= k + 1 /\ k + 1 \in 0 .. n
      BY <2>1
    <3> QED
      BY <2>1, <2>3, <3>1, Zenon
  <2>4. CASE h[k + 1] = Append(h[k], list[k + 1])
    <3>1. Append(h[k], list[k + 1]) \in Seq(S) /\ Len(Append(h[k], list[k + 1])) <= k + 1 /\ k + 1 \in 0 .. n
      BY <2>1
    <3> QED
      BY <2>4, <3>1, Zenon
  <2> QED
    BY <2>2, <2>3, <2>4
<1> HIDE DEF T
<1>5. \A k \in 0 .. n : k \in T /\ k < n => k + 1 \in T
  BY <1>4
<1>6. 0 .. n \subseteq T
  BY <1>3, <1>5, UpTo, Zenon
<1>7. n \in 0 .. n
  OBVIOUS
<1> QED
  BY <1>6, <1>7, Zenon DEF T

\* What is left of a list without some of its elements.
LEMMA WithoutTyped ==
    ASSUME NEW S, NEW list \in Seq(S), NEW m, NEW p
    PROVE  Without(list, m, p) \in Seq(S) /\ Len(Without(list, m, p)) <= Len(list)
<1> DEFINE kept == CHOOSE h : Kept(list, m, p, Len(list), h)
<1>1. Len(list) \in Nat
  OBVIOUS
<1>2. Kept(list, m, p, Len(list), kept)
  BY <1>1, KeptExists
<1>3. Without(list, m, p) = kept[Len(list)]
  BY Zenon DEF Without, Kept
<1> HIDE DEF kept
<1> QED
  BY <1>1, <1>2, <1>3, KeptTyped

-----------------------------------------------------------------------------
(* What speaks against a request (resolver.ts).                            *)

\* Every profile has positive dimensions, whatever the device.
LEMMA DimensionsTyped ==
    ASSUME NEW d, NEW p \in Profile
    PROVE  Dimensions(d)[p] \in [ctx : Nat \ {0}, batch : Nat \ {0}, ubatch : Nat \ {0}]
<1>1. /\ Dimensions(d)[p].ctx \in Nat \ {0} /\ Dimensions(d)[p].batch \in Nat \ {0}
      /\ Dimensions(d)[p].ubatch \in Nat \ {0}
      /\ Dimensions(d)[p] = [ctx |-> Dimensions(d)[p].ctx, batch |-> Dimensions(d)[p].batch,
                             ubatch |-> Dimensions(d)[p].ubatch]
  BY DEF Dimensions, Profile
<1> QED
  BY <1>1

\* The worst of a set of verdicts.
LEMMA Worst ==
    ASSUME NEW S \in SUBSET {1, 2, 3, 4}
    PROVE  Max({0} \cup S) \in {0} \cup S /\ \A y \in S : Max({0} \cup S) >= y
<1>1. \E x \in {0} \cup S : \A y \in {0} \cup S : x >= y
  <2>1. CASE 4 \in S
    BY <2>1
  <2>2. CASE 4 \notin S /\ 3 \in S
    BY <2>2
  <2>3. CASE 4 \notin S /\ 3 \notin S /\ 2 \in S
    BY <2>3
  <2>4. CASE 4 \notin S /\ 3 \notin S /\ 2 \notin S
    BY <2>4
  <2> QED
    BY <2>1, <2>2, <2>3, <2>4
<1> DEFINE P(x) == \A y \in {0} \cup S : x >= y
<1>2. \E x \in {0} \cup S : P(x)
  BY <1>1
<1>3. Max({0} \cup S) = CHOOSE x \in {0} \cup S : P(x)
  BY DEF Max
<1> HIDE DEF P
<1>4. Max({0} \cup S) \in {0} \cup S /\ P(Max({0} \cup S))
  BY <1>2, <1>3
<1> QED
  BY <1>4 DEF P

\* Nothing but these four speaks.
LEMMA AgainstTyped ==
    ASSUME NEW d, NEW m, NEW r, NEW x
    PROVE  Against(d, m, r, x) \in SUBSET {1, 2, 3, 4}
<1> QED
  BY DEF Against, WARNING, EXPERIMENTAL, NOT_RECOMMENDED, UNSUPPORTED

\* A request is allowed if nothing forbids it, and the user consented to an experiment.
LEMMA AllowedMeans ==
    ASSUME NEW d, NEW m, NEW r, NEW x, NEW e \in BOOLEAN
    PROVE  Allowed(Resolution(d, m, r, x), e)
              <=> /\ UNSUPPORTED \notin Against(d, m, r, x)
                  /\ NOT_RECOMMENDED \notin Against(d, m, r, x)
                  /\ EXPERIMENTAL \in Against(d, m, r, x) => e
<1> DEFINE A == Against(d, m, r, x)
           w == Max({0} \cup A)
<1>1. A \in SUBSET {1, 2, 3, 4}
  BY AgainstTyped
<1>2. Resolution(d, m, r, x).compatibility = w
  BY DEF Resolution, SUPPORTED
<1> HIDE DEF A
<1>3. w \in {0} \cup A /\ \A y \in A : w >= y
  BY <1>1, Worst
<1> HIDE DEF w
<1>4. (w < 3 /\ (w = 2 => e)) <=> (4 \notin A /\ 3 \notin A /\ (2 \in A => e))
  BY <1>1, <1>3
<1> QED
  BY <1>2, <1>4 DEF A, Allowed, EXPERIMENTAL, NOT_RECOMMENDED, UNSUPPORTED

\* Who says so.
LEMMA AgainstMeans ==
    ASSUME NEW d, NEW m, NEW r, NEW x
    PROVE  /\ UNSUPPORTED \in Against(d, m, r, x) <=>
                \/ ~d.runtime
                \/ Below(Manifest[m].maximum, ContextOf(d, Wanted(m, r), x))
                \/ Below(d.physical, Manifest[m].minimumRam)
           /\ NOT_RECOMMENDED \in Against(d, m, r, x) <=>
                \/ Below(d.available, Manifest[m].minimumRam)
                \/ Locked(Settled(d, m, r), Ooms(d, m))
                \/ Manifest[m].moe /\ Below(d.physical, 24)
           /\ EXPERIMENTAL \in Against(d, m, r, x) <=>
                Settled(d, m, r) = "experimental-moe" \/ Manifest[m].experimental
<1> QED
  BY DEF Against, WARNING, EXPERIMENTAL, NOT_RECOMMENDED, UNSUPPORTED

\* A profile that is asked for is the one that is judged.
LEMMA AskedFor ==
    ASSUME NEW d, NEW m, NEW p \in Profile
    PROVE  Wanted(m, p) = p /\ Settled(d, m, p) = p
<1> QED
  BY NoneAssumption DEF Wanted, Settled

\* An experiment is allowed with the consent only.
LEMMA AllowedConsents ==
    ASSUME NEW d, NEW m, NEW p \in Profile, NEW x, NEW e \in BOOLEAN, Allowed(Resolution(d, m, p, x), e),
           p = "experimental-moe" \/ Manifest[m].experimental
    PROVE  e
<1>1. EXPERIMENTAL \in Against(d, m, p, x)
  BY AskedFor, AgainstMeans
<1> QED
  BY <1>1, AllowedMeans

\* What is resolved can be initialized, with the context asked for.
LEMMA ResolutionRuns ==
    ASSUME NEW d, NEW m \in Model, NEW r \in Profile \cup {None}, NEW x \in Contexts
    PROVE  LET dims == Resolution(d, m, r, x).dimensions IN
           dims \in Sizes /\ Initializable(dims) /\ (x # None => dims.ctx = x)
<1> DEFINE p == Settled(d, m, r)
           ctx == ContextOf(d, p, x)
           s == Dimensions(d)[p]
<1>1. p \in Profile
  BY ManifestAssumption DEF Settled, Wanted, Profile
<1>2. s \in [ctx : Nat \ {0}, batch : Nat \ {0}, ubatch : Nat \ {0}]
  BY <1>1, DimensionsTyped
<1> HIDE DEF s, p
<1>3. ctx \in Nat \ {0} /\ (x # None => ctx = x)
  BY <1>2 DEF ContextOf, Contexts, s
<1>4. Resolution(d, m, r, x).dimensions = Clamped(s, ctx)
  BY DEF Resolution, s, p
<1> HIDE DEF ctx
<1>5. Clamped(s, ctx) = [ctx |-> ctx, batch |-> Least(s.batch, ctx), ubatch |-> Least(Least(s.ubatch, s.batch), ctx)]
  BY DEF Clamped
<1>6. /\ Least(s.batch, ctx) \in Nat \ {0} /\ Least(Least(s.ubatch, s.batch), ctx) \in Nat \ {0}
      /\ Least(Least(s.ubatch, s.batch), ctx) <= Least(s.batch, ctx)
  BY <1>2, <1>3 DEF Least
<1>7. Clamped(s, ctx) \in Sizes /\ Initializable(Clamped(s, ctx)) /\ Clamped(s, ctx).ctx = ctx
  BY <1>3, <1>5, <1>6 DEF Sizes, Initializable
<1> QED
  BY <1>3, <1>4, <1>7

-----------------------------------------------------------------------------
(* Which model is chosen (selection.ts).                                   *)

\* Among models there is a first one.
LEMMA FirstModel ==
    ASSUME NEW T \in SUBSET Model, T # {}
    PROVE  \E m \in T : \A n \in T \ {m} : Before(m, n)
<1> DEFINE tier(x) == IF Manifest[x].experimental THEN 1 ELSE 0
           size(x) == Manifest[x].size
           E == {tier(x) : x \in T}
<1>1. \A x \in T : tier(x) \in Nat /\ size(x) \in Nat /\ x \in Nat
  BY ManifestAssumption
<1>2. ASSUME NEW m \in T, NEW n \in T,
             \/ tier(m) < tier(n)
             \/ tier(m) = tier(n) /\ size(m) < size(n)
             \/ tier(m) = tier(n) /\ size(m) = size(n) /\ m < n
      PROVE  Before(m, n)
  BY <1>2, Zenon DEF Before
<1> HIDE DEF tier, size
<1>3. PICK e \in E : \A f \in E : e <= f
  <2>1. E \in SUBSET Nat /\ E # {}
    BY <1>1
  <2> QED
    BY <2>1, LeastElement
<1> DEFINE T1 == {x \in T : tier(x) = e}
           Z == {size(x) : x \in T1}
<1>4. PICK z \in Z : \A y \in Z : z <= y
  <2>1. Z \in SUBSET Nat /\ Z # {}
    BY <1>1, <1>3
  <2> QED
    BY <2>1, LeastElement
<1> DEFINE T2 == {x \in T1 : size(x) = z}
<1>5. PICK m \in T2 : \A n \in T2 : m <= n
  <2>1. T2 \in SUBSET Nat /\ T2 # {}
    BY <1>1, <1>4
  <2> QED
    BY <2>1, LeastElement
<1>6. ASSUME NEW n \in T \ {m} PROVE Before(m, n)
  <2>1. m \in T /\ tier(m) = e /\ size(m) = z /\ n \in T /\ n # m
    BY <1>5
  <2>2. tier(m) <= tier(n)
    BY <1>3, <2>1
  <2>3. tier(m) = tier(n) => size(m) <= size(n)
    BY <1>4, <2>1
  <2>4. tier(m) = tier(n) /\ size(m) = size(n) => m <= n
    BY <1>5, <2>1
  <2>5. \/ tier(m) < tier(n)
        \/ tier(m) = tier(n) /\ size(m) < size(n)
        \/ tier(m) = tier(n) /\ size(m) = size(n) /\ m < n
    BY <1>1, <2>1, <2>2, <2>3, <2>4
  <2> QED
    BY <1>2, <2>1, <2>5
<1> QED
  BY <1>5, <1>6

\* The model selected is one of the READY ones that fit.
LEMMA CompatibleFits ==
    ASSUME NEW ready \in SUBSET Model, NEW id, NEW capabilities, NEW context, NEW runtimes,
           Compatible(ready, id, capabilities, context, runtimes) # None
    PROVE  LET m == Compatible(ready, id, capabilities, context, runtimes) IN
           /\ m \in ready
           /\ id # None => m = id
           /\ context # None => Supported(m) >= context
<1> DEFINE fit == {m \in ready :
                     /\ id # None => m = id
                     /\ capabilities \subseteq (Manifest[m].capabilities \cap {"text"})
                     /\ context # None => Supported(m) >= context
                     /\ runtimes # None => "llama.rn" \in runtimes}
           P(m) == \A n \in fit \ {m} : Before(m, n)
<1>1. Compatible(ready, id, capabilities, context, runtimes) = IF fit = {} THEN None ELSE CHOOSE m \in fit : P(m)
  BY Zenon DEF Compatible
<1>2. fit \in SUBSET Model
  OBVIOUS
<1>3. fit # {} => \E m \in fit : P(m)
  BY <1>2, FirstModel
<1>4. \A m \in fit : /\ m \in ready
                     /\ id # None => m = id
                     /\ context # None => Supported(m) >= context
  OBVIOUS
<1> HIDE DEF fit, P
<1>5. Compatible(ready, id, capabilities, context, runtimes) \in fit
  BY <1>1, <1>3
<1> QED
  BY <1>4, <1>5

\* A model that fits is selected by its id.
LEMMA CompatibleItself ==
    ASSUME NEW ready, NEW m \in ready, m # None, NEW capabilities, NEW context,
           capabilities \subseteq (Manifest[m].capabilities \cap {"text"}),
           context # None => Supported(m) >= context
    PROVE  Compatible(ready, m, capabilities, context, None) = m
<1> DEFINE fit == {n \in ready :
                     /\ m # None => n = m
                     /\ capabilities \subseteq (Manifest[n].capabilities \cap {"text"})
                     /\ context # None => Supported(n) >= context
                     /\ None # None => "llama.rn" \in None}
           P(n) == \A k \in fit \ {n} : Before(n, k)
<1>1. Compatible(ready, m, capabilities, context, None) = IF fit = {} THEN None ELSE CHOOSE n \in fit : P(n)
  BY Zenon DEF Compatible
<1>2. fit = {m}
  OBVIOUS
<1>3. \E n \in fit : P(n)
  BY <1>2
<1> HIDE DEF fit, P
<1> QED
  BY <1>1, <1>2, <1>3

\* A model that is not READY is not selected.
LEMMA CompatibleAbsent ==
    ASSUME NEW ready, NEW m, m \notin ready, m # None, NEW capabilities, NEW context, NEW runtimes
    PROVE  Compatible(ready, m, capabilities, context, runtimes) = None
<1> QED
  BY DEF Compatible

\* The requirements of a call: at least what the caller and the client each need.
LEMMA EffectiveTyped ==
    ASSUME NEW i \in Asked, NEW config, config.context \in Contexts, config.minimumContext \in Contexts
    PROVE  /\ Effective(i, config).context \in Contexts
           /\ \A asked \in {i.context, config.minimumContext} \ {None} :
                 Effective(i, config).context # None /\ Effective(i, config).context >= asked
<1>1. Effective(i, config).context = Larger(First(i.context, config.context), config.minimumContext)
  BY DEF Effective
<1>2. i.context \in Contexts
  BY DEF Asked
<1> QED
  BY <1>1, <1>2, NoneAssumption DEF Contexts, Larger, First

\* What a client may be configured with.
Usable(config) ==
    /\ config.context \in Contexts /\ config.minimumContext \in Contexts
    /\ config.preferred \in Nat \cup {None} /\ config.profile \in Profile \cup {None}
    /\ \A id \in DOMAIN config.aliases : config.aliases[id] \in [model : Nat, profile : Profile \cup {None}]

\* Both are: the application's configuration and the empty one.
LEMMA ConfigsUsable == Usable(Config) /\ Usable(NoConfig)
<1>1. Usable(Config)
  BY ConfigAssumption DEF Usable
<1>2. NoConfig.aliases = << >> /\ DOMAIN << >> = {}
  BY DEF NoConfig
<1>3. Usable(NoConfig)
  BY <1>2 DEF Usable, NoConfig, Contexts
<1> QED
  BY <1>1, <1>3

\* The model and profile a creation names is what was asked for.
Target(config, id) == IF id \in DOMAIN config.aliases THEN config.aliases[id].model ELSE id
Serves(i, config, m, p) ==
    /\ i.model # None => m = Target(config, i.model)
    /\ i.model = None /\ config.preferred # None =>
          \/ m = Target(config, config.preferred)
          \/ config.fallback /\ p = First(i.profile, First(config.profile, Manifest[m].profile))
    /\ i.profile # None => p = i.profile

\* The model an id or an alias of one stands for, with the profile of the alias.
LEMMA AliasedTyped ==
    ASSUME NEW i \in Asked, NEW config, Usable(config)
    PROVE  /\ RequestedProfile(i, config) \in Profile \cup {None}
           /\ FallbackProfile(i, config) \in Profile \cup {None}
           /\ i.profile # None => RequestedProfile(i, config) = i.profile /\ FallbackProfile(i, config) = i.profile
           /\ Requested(i, config) # None =>
                Aliased(i, config).model = Target(config, Requested(i, config)) /\ Aliased(i, config).model # None
<1>1. i.profile \in Profile \cup {None} /\ i.model \in Nat \cup {None} /\ config.profile \in Profile \cup {None}
      /\ config.preferred \in Nat \cup {None}
  BY DEF Asked, Usable
<1>2. Aliased(i, config).profile \in Profile \cup {None}
  <2>1. CASE Requested(i, config) \in DOMAIN config.aliases
    BY <2>1 DEF Usable, Aliased
  <2>2. CASE Requested(i, config) \notin DOMAIN config.aliases
    BY <2>2 DEF Aliased
  <2> QED
    BY <2>1, <2>2
<1>3. ASSUME Requested(i, config) # None
      PROVE  Aliased(i, config).model = Target(config, Requested(i, config)) /\ Aliased(i, config).model # None
  <2>1. CASE Requested(i, config) \in DOMAIN config.aliases
    BY <2>1, NoneAssumption DEF Usable, Aliased, Target
  <2>2. CASE Requested(i, config) \notin DOMAIN config.aliases
    BY <1>3, <2>2 DEF Aliased, Target
  <2> QED
    BY <2>1, <2>2
<1> QED
  BY <1>1, <1>2, <1>3 DEF RequestedProfile, FallbackProfile, First

\* A choice that is not None is the model with the first profile named.
LEMMA ChosenMeans ==
    ASSUME NEW m, NEW p, Chosen(m, p) # None
    PROVE  m # None /\ Chosen(m, p).model = m /\ Chosen(m, p).profile = First(p, Manifest[m].profile)
<1> QED
  BY DEF Chosen

\* The client resolves a request to a READY model, and to the one that was asked for.
LEMMA ResolvedServes ==
    ASSUME NEW ready \in SUBSET Model, NEW i \in Asked, NEW config, Usable(config),
           Resolved(ready, i, config) # None
    PROVE  LET r == Resolved(ready, i, config) IN
           /\ r.model \in ready /\ r.profile \in Profile
           /\ Effective(i, config).context # None => Supported(r.model) >= Effective(i, config).context
           /\ Serves(i, config, r.model, r.profile)
<1> DEFINE e == Effective(i, config)
           c1 == Compatible(ready, Aliased(i, config).model, e.capabilities, e.context, e.runtimes)
           c2 == Compatible(ready, None, e.capabilities, e.context, e.runtimes)
           p1 == RequestedProfile(i, config)
           p2 == FallbackProfile(i, config)
           explicit == \/ i.model # None
                       \/ config.preferred # None /\ (Chosen(c1, p1) # None \/ ~config.fallback)
<1>1. Resolved(ready, i, config) = IF explicit THEN Chosen(c1, p1) ELSE Chosen(c2, p2)
  BY Zenon DEF Resolved, BestCompatible
<1>2. c1 # None => /\ c1 \in ready
                   /\ Aliased(i, config).model # None => c1 = Aliased(i, config).model
                   /\ e.context # None => Supported(c1) >= e.context
  BY CompatibleFits
<1>3. c2 # None => c2 \in ready /\ (e.context # None => Supported(c2) >= e.context)
  BY CompatibleFits
<1>4. /\ p1 \in Profile \cup {None} /\ p2 \in Profile \cup {None}
      /\ i.profile # None => p1 = i.profile /\ p2 = i.profile
      /\ Requested(i, config) # None =>
            Aliased(i, config).model = Target(config, Requested(i, config)) /\ Aliased(i, config).model # None
      /\ p2 = First(i.profile, config.profile)
  BY AliasedTyped DEF FallbackProfile
<1>5. Requested(i, config) = IF i.model # None THEN i.model ELSE config.preferred
  BY DEF Requested, First
<1>6. \A m \in ready : Manifest[m].profile \in Profile
  BY ManifestAssumption
<1>7. explicit <=> \/ i.model # None
                   \/ config.preferred # None /\ (Chosen(c1, p1) # None \/ ~config.fallback)
  OBVIOUS
<1> HIDE DEF e, c1, c2, p1, p2, explicit
<1>8. CASE explicit
  <2>1. c1 # None /\ Chosen(c1, p1).model = c1 /\ Chosen(c1, p1).profile = First(p1, Manifest[c1].profile)
    BY <1>1, <1>8, ChosenMeans
  <2>2. c1 \in ready /\ First(p1, Manifest[c1].profile) \in Profile
    BY <1>2, <1>4, <1>6, <2>1 DEF First
  <2>3. c1 = Target(config, Requested(i, config))
    BY <1>2, <1>4, <1>5, <1>7, <1>8, <2>1
  <2>4. i.profile # None => First(p1, Manifest[c1].profile) = i.profile
    BY <1>4 DEF First
  <2>5. Serves(i, config, c1, First(p1, Manifest[c1].profile))
    BY <1>5, <2>3, <2>4 DEF Serves
  <2> QED
    BY <1>1, <1>2, <1>8, <2>1, <2>2, <2>5 DEF e
<1>9. CASE ~explicit
  <2>1. c2 # None /\ Chosen(c2, p2).model = c2 /\ Chosen(c2, p2).profile = First(p2, Manifest[c2].profile)
    BY <1>1, <1>9, ChosenMeans
  <2>2. c2 \in ready /\ First(p2, Manifest[c2].profile) \in Profile
    BY <1>3, <1>4, <1>6, <2>1 DEF First
  <2>3. First(p2, Manifest[c2].profile) = First(i.profile, First(config.profile, Manifest[c2].profile))
    BY <1>4 DEF First
  <2>4. i.profile # None => First(p2, Manifest[c2].profile) = i.profile
    BY <1>4 DEF First
  <2>5. i.model = None /\ (config.preferred # None => config.fallback)
    BY <1>7, <1>9
  <2>6. Serves(i, config, c2, First(p2, Manifest[c2].profile))
    BY <2>3, <2>4, <2>5 DEF Serves
  <2> QED
    BY <1>1, <1>3, <1>9, <2>1, <2>2, <2>6 DEF e
<1> QED
  BY <1>8, <1>9

-----------------------------------------------------------------------------
(* How far a creation is, and what is known of it.                         *)

Cfg(k) == IF k.configured THEN Config ELSE NoConfig
Named(k) ==
    /\ k.model \in Model /\ k.profile \in Profile
    /\ k.context = Effective(k.intent, Cfg(k)).context
    /\ k.context # None => Supported(k.model) >= k.context
    /\ Serves(k.intent, Cfg(k), k.model, k.profile)
Sized(k) ==
    /\ k.dimensions \in Sizes /\ Initializable(k.dimensions)
    /\ k.context # None => k.dimensions.ctx = k.context
Consented(k) == k.profile = "experimental-moe" \/ Manifest[k.model].experimental => k.consent
Known(k) ==
    /\ k \in Call
    /\ k.at # "idle" => k.intent \in Asked
    /\ k.at \notin {"idle", "resolving"} => Named(k)
    /\ k.at \in {"admitted", "loading"} => Sized(k) /\ Consented(k)

\* Nothing is claimed of a creation that has not begun.
LEMMA KnownIdle == Known(Idle)
<1>1. Idle \in Call /\ Idle.at = "idle"
  BY DEF Idle, Call, Contexts
<1> QED
  BY <1>1 DEF Known

\* It begins with what it asks.
LEMMA KnownBegins ==
    ASSUME NEW i \in Asked, NEW b \in BOOLEAN
    PROVE  Known([Idle EXCEPT !.at = "resolving", !.intent = i, !.configured = b])
<1> DEFINE k == [Idle EXCEPT !.at = "resolving", !.intent = i, !.configured = b]
<1>1. k \in Call /\ k.at = "resolving" /\ k.intent = i
  BY DEF Idle, Call, Contexts
<1> HIDE DEF k
<1>2. Known(k)
  BY <1>1 DEF Known
<1> QED
  BY <1>2 DEF k

\* Every creation has a usable configuration.
LEMMA CfgUsable == \A k : Usable(Cfg(k))
<1> QED
  BY ConfigsUsable DEF Cfg

\* It is resolved to a READY model that serves what it asked.
LEMMA KnownResolves ==
    ASSUME NEW k, Known(k), k.at = "resolving", NEW ready \in SUBSET Model,
           Resolved(ready, k.intent, Cfg(k)) # None
    PROVE  Known([k EXCEPT !.at = "resolved", !.model = Resolved(ready, k.intent, Cfg(k)).model,
                           !.profile = Resolved(ready, k.intent, Cfg(k)).profile,
                           !.context = Effective(k.intent, Cfg(k)).context])
<1> DEFINE r == Resolved(ready, k.intent, Cfg(k))
           x == Effective(k.intent, Cfg(k)).context
           l == [k EXCEPT !.at = "resolved", !.model = r.model, !.profile = r.profile, !.context = x]
<1>1. k \in Call /\ k.intent \in Asked
  BY DEF Known
<1>2. /\ r.model \in ready /\ r.profile \in Profile
      /\ x # None => Supported(r.model) >= x
      /\ Serves(k.intent, Cfg(k), r.model, r.profile)
  BY <1>1, CfgUsable, ResolvedServes
<1>3. x \in Contexts
  BY <1>1, CfgUsable, EffectiveTyped DEF Usable
<1>4. r.model \in Model
  BY <1>2
<1> HIDE DEF r, x
<1>5. /\ l \in Call /\ l.at = "resolved" /\ l.model = r.model /\ l.profile = r.profile /\ l.context = x
      /\ l.intent = k.intent /\ l.configured = k.configured
  BY <1>1, <1>2, <1>3, <1>4 DEF Call
<1> HIDE DEF l
<1>6. Cfg(l) = Cfg(k)
  BY <1>5 DEF Cfg
<1>7. Named(l)
  BY <1>2, <1>4, <1>5, <1>6 DEF Named, x
<1>8. Known(l)
  BY <1>1, <1>5, <1>7 DEF Known
<1> QED
  BY <1>8 DEF l, r, x

\* The consent is read.
LEMMA KnownGates ==
    ASSUME NEW k, Known(k), k.at = "resolved", NEW b \in BOOLEAN
    PROVE  Known([k EXCEPT !.at = "gated", !.consent = b])
<1> DEFINE l == [k EXCEPT !.at = "gated", !.consent = b]
<1>1. k \in Call /\ k.intent \in Asked /\ Named(k)
  BY DEF Known
<1>2. /\ l \in Call /\ l.at = "gated" /\ l.model = k.model /\ l.profile = k.profile /\ l.context = k.context
      /\ l.intent = k.intent /\ l.configured = k.configured
  BY <1>1 DEF Call
<1> HIDE DEF l
<1>3. Named(l)
  BY <1>1, <1>2 DEF Named, Cfg
<1>4. Known(l)
  BY <1>1, <1>2, <1>3 DEF Known
<1> QED
  BY <1>4 DEF l

\* The resolver's dimensions hold the context it asked, and an experiment was
\* consented to.
LEMMA KnownAdmits ==
    ASSUME NEW k, Known(k), k.at = "gated", NEW d,
           Allowed(Resolution(d, k.model, k.profile, k.context), k.consent)
    PROVE  Known([k EXCEPT !.at = "admitted", !.dimensions = Resolution(d, k.model, k.profile, k.context).dimensions])
<1> DEFINE s == Resolution(d, k.model, k.profile, k.context).dimensions
           l == [k EXCEPT !.at = "admitted", !.dimensions = s]
<1>1. k \in Call /\ k.intent \in Asked /\ Named(k) /\ k.context \in Contexts /\ k.consent \in BOOLEAN
  BY DEF Known, Call
<1>2. s \in Sizes /\ Initializable(s) /\ (k.context # None => s.ctx = k.context)
  BY <1>1, ResolutionRuns DEF Named
<1>3. Consented(k)
  BY <1>1, AllowedConsents DEF Consented, Named
<1> HIDE DEF s
<1>4. /\ l \in Call /\ l.at = "admitted" /\ l.model = k.model /\ l.profile = k.profile /\ l.context = k.context
      /\ l.intent = k.intent /\ l.configured = k.configured /\ l.consent = k.consent /\ l.dimensions = s
  BY <1>1, <1>2 DEF Call
<1> HIDE DEF l
<1>5. Named(l) /\ Sized(l) /\ Consented(l)
  BY <1>1, <1>2, <1>3, <1>4 DEF Named, Sized, Consented, Cfg
<1>6. Known(l)
  BY <1>1, <1>4, <1>5 DEF Known
<1> QED
  BY <1>6 DEF l, s

\* The verification changes nothing of it.
LEMMA KnownEnters ==
    ASSUME NEW k, Known(k), k.at = "admitted"
    PROVE  Known([k EXCEPT !.at = "loading"])
<1> DEFINE l == [k EXCEPT !.at = "loading"]
<1>1. k \in Call /\ k.intent \in Asked /\ Named(k) /\ Sized(k) /\ Consented(k)
  BY DEF Known
<1>2. /\ l \in Call /\ l.at = "loading" /\ l.model = k.model /\ l.profile = k.profile /\ l.context = k.context
      /\ l.intent = k.intent /\ l.configured = k.configured /\ l.dimensions = k.dimensions /\ l.consent = k.consent
  BY <1>1 DEF Call
<1> HIDE DEF l
<1>3. Named(l) /\ Sized(l) /\ Consented(l)
  BY <1>1, <1>2 DEF Named, Sized, Consented, Cfg
<1>4. Known(l)
  BY <1>1, <1>2, <1>3 DEF Known
<1> QED
  BY <1>4 DEF l

\* What is known of every creation is what the run's invariants say of it.
LEMMA KnownServes ==
    ASSUME call \in [Caller -> Call], \A c \in Caller : Known(call[c])
    PROVE  CallInv /\ ServesWhatWasAsked
<1>1. CallInv
  BY DEF CallInv, Known, Named, Sized, Cfg, ConfigOf
<1>2. ASSUME NEW c \in Caller, call[c].at \notin {"idle", "resolving"}
      PROVE  LET intent == call[c].intent
                 config == ConfigOf(c)
                 target(id) == IF id \in DOMAIN config.aliases THEN config.aliases[id].model ELSE id IN
             /\ intent.model # None => call[c].model = target(intent.model)
             /\ intent.model = None /\ config.preferred # None =>
                   \/ call[c].model = target(config.preferred)
                   \/ /\ config.fallback
                      /\ call[c].profile = First(intent.profile, First(config.profile, Manifest[call[c].model].profile))
             /\ intent.profile # None => call[c].profile = intent.profile
             /\ \A asked \in {intent.context, config.minimumContext} \ {None} :
                   /\ Supported(call[c].model) >= asked
                   /\ call[c].at \in {"admitted", "loading"} => call[c].dimensions.ctx >= asked
             /\ call[c].at \in {"admitted", "loading"} => Initializable(call[c].dimensions)
  <2> DEFINE k == call[c]
  <2>1. Known(k) /\ ConfigOf(c) = Cfg(k)
    BY DEF Cfg, ConfigOf
  <2>2. Named(k) /\ k.intent \in Asked
    BY <1>2, <2>1 DEF Known
  <2>3. k.at \in {"admitted", "loading"} => Sized(k)
    BY <2>1 DEF Known
  <2>4. Usable(Cfg(k)) /\ k.model \in Model
    BY <2>2, CfgUsable DEF Named
  <2> HIDE DEF k
  <2>5. \A asked \in {k.intent.context, Cfg(k).minimumContext} \ {None} :
            k.context # None /\ k.context >= asked /\ asked \in Nat
    BY <2>2, <2>4, EffectiveTyped DEF Named, Usable, Asked, Contexts
  <2>6. k.context \in Contexts
    BY <2>2, <2>4, EffectiveTyped DEF Named, Usable
  <2>7. Supported(k.model) \in Nat
    BY <2>4, ManifestAssumption DEF Supported, First, Measure
  <2>8. ASSUME NEW asked \in {k.intent.context, Cfg(k).minimumContext} \ {None}
        PROVE  /\ Supported(k.model) >= asked
               /\ k.at \in {"admitted", "loading"} => k.dimensions.ctx >= asked
    <3>1. k.context # None /\ k.context >= asked /\ asked \in Nat /\ k.context \in Nat
      BY <2>5, <2>6, <2>8 DEF Contexts
    <3>2. Supported(k.model) >= asked
      BY <2>2, <2>7, <3>1 DEF Named
    <3>3. k.at \in {"admitted", "loading"} => k.dimensions.ctx = k.context
      BY <2>3, <3>1 DEF Sized
    <3> QED
      BY <3>1, <3>2, <3>3
  <2>9. k.at \in {"admitted", "loading"} => Initializable(k.dimensions)
    BY <2>3 DEF Sized
  <2>10. Serves(k.intent, Cfg(k), k.model, k.profile)
    BY <2>2 DEF Named
  <2> QED
    BY <2>1, <2>8, <2>9, <2>10, Zenon DEF Serves, Target, k
<1> QED
  BY <1>1, <1>2, Zenon DEF ServesWhatWasAsked

-----------------------------------------------------------------------------
(* The inductive invariant: what the store keeps, and what is known of each *)
(* creation.                                                               *)

StoreOK ==
    /\ memory \in Device /\ lifecycle \in [device : Device, registry : Registry \cup {None}] \cup {None}
    /\ registry \in Registry /\ shown \in Registry
    /\ shown.accepted \subseteq registry.accepted
    /\ lifecycle # None /\ lifecycle.registry # None => lifecycle.registry.accepted \subseteq registry.accepted
    /\ stored \in Persisted \cup {None}
    /\ hydrating \subseteq Persisted \cup {None} /\ \A s, t \in hydrating : s = t
    /\ settings \in Settings
    /\ failures \in Seq(Record) /\ Len(failures) <= MaxFailures
    /\ device \in DeviceProfile \cup {None}
    /\ Forgotten => device.failures = << >>
    /\ Forgotten \/ Unconsented => hydrating = {}
    /\ available \in BOOLEAN
    /\ changes \in 0 .. MaxChanges

CallsKnown == call \in [Caller -> Call] /\ \A c \in Caller : Known(call[c])

HubInv == StoreOK /\ CallsKnown

\* It implies what the run checks.
LEMMA HubInvMeans == HubInv => HubInductive /\ ServesWhatWasAsked
<1> SUFFICES ASSUME HubInv PROVE HubInductive /\ ServesWhatWasAsked
  OBVIOUS
<1>1. CallInv /\ ServesWhatWasAsked
  BY KnownServes DEF HubInv, CallsKnown
<1>2. /\ TypeOK /\ Len(failures) <= MaxFailures
      /\ Forgotten => device.failures = << >>
      /\ Forgotten \/ Unconsented => hydrating = {}
      /\ shown.accepted \subseteq registry.accepted
      /\ lifecycle # None /\ lifecycle.registry # None => lifecycle.registry.accepted \subseteq registry.accepted
  BY DEF HubInv, StoreOK, CallsKnown, TypeOK
<1>3. \A c \in Caller :
          /\ call[c].at \in {"admitted", "loading"}
          /\ call[c].profile = "experimental-moe" \/ Manifest[call[c].model].experimental
          => call[c].consent
  BY DEF HubInv, CallsKnown, Known, Consented
<1> QED
  BY <1>1, <1>2, <1>3 DEF HubInductive

\* A creation moves alone.
LEMMA CallerMoves ==
    ASSUME CallsKnown, NEW c \in Caller, NEW k, Known(k), call' = [call EXCEPT ![c] = k]
    PROVE  CallsKnown'
<1>1. k \in Call
  BY DEF Known
<1>2. call' \in [Caller -> Call] /\ \A d \in Caller : call'[d] = IF d = c THEN k ELSE call[d]
  BY <1>1 DEF CallsKnown
<1> QED
  BY <1>2 DEF CallsKnown

\* Steps of the store leave the creations as they are.
LEMMA CallsStay == ASSUME CallsKnown, UNCHANGED call PROVE CallsKnown'
<1> QED
  BY DEF CallsKnown

\* The list of failures also goes to the device profile.
LEMMA Remembers ==
    ASSUME StoreOK, NEW list \in Seq(Record), Len(list) <= MaxFailures, Remember(list)
    PROVE  /\ failures' \in Seq(Record) /\ Len(failures') <= MaxFailures
           /\ device' \in DeviceProfile \cup {None}
           /\ ~Forgotten'
<1> SUFFICES failures' \in Seq(Record) /\ Len(failures') <= MaxFailures /\ device' \in DeviceProfile \cup {None}
             /\ (device' # None => device'.failures = failures')
  BY DEF Forgotten
<1>1. failures' = list
  BY DEF Remember
<1>2. CASE device = None
  BY <1>1, <1>2 DEF Remember
<1>3. CASE device # None
  <2>1. device' = [device EXCEPT !.failures = list] /\ device \in DeviceProfile
    BY <1>3 DEF Remember, StoreOK
  <2>2. device' \in DeviceProfile /\ device'.failures = list
    BY <2>1 DEF DeviceProfile
  <2> QED
    BY <1>1, <2>2
<1> QED
  BY <1>2, <1>3

\* A profile that was just measured remembers what the store does.
LEMMA Profiled ==
    ASSUME StoreOK, NEW d \in Device, NEW b \in BOOLEAN, SetDeviceProfile(d, b), UNCHANGED failures
    PROVE  device' \in DeviceProfile /\ ~Forgotten'
<1>1. d.physical \in Measure /\ d.available \in Measure /\ failures \in Seq(Record)
  BY DeviceAssumption DEF StoreOK
<1> QED
  BY <1>1 DEF SetDeviceProfile, DeviceProfile, Forgotten

\* What is saved has all its fields.
LEMMA Saved ==
    ASSUME Saves, settings' \in Settings, failures' \in Seq(Record)
    PROVE  stored' \in Persisted
<1> QED
  BY DEF Saves, Settings, Persisted

\* No step but the merge parts what belongs together.
Apart == (Forgotten' => Forgotten) /\ (Unconsented' => Unconsented)

\* A step that leaves device and settings alone, or in order, parts nothing.
LEMMA Together ==
    ASSUME StoreOK, UNCHANGED hydrating,
           UNCHANGED <<device, failures>> \/ ~Forgotten', UNCHANGED settings \/ ~Unconsented'
    PROVE  /\ Apart
           /\ Forgotten' => device'.failures = << >>
           /\ Forgotten' \/ Unconsented' => hydrating' = {}
<1>1. Forgotten' => Forgotten /\ UNCHANGED device
  BY DEF Forgotten
<1>2. Unconsented' => Unconsented
  BY DEF Unconsented
<1> QED
  BY <1>1, <1>2 DEF StoreOK, Apart

\* A Hub that was just started.
LEMMA InitHub == Init => HubInv
<1> SUFFICES ASSUME Init PROVE HubInv
  OBVIOUS
<1>1. settings \in Settings /\ ~Unconsented
  BY ContextAssumption DEF Init, Defaults, Settings, Profile, Unconsented
<1>2. registry \in Registry /\ shown \in Registry /\ shown.accepted \subseteq registry.accepted
  BY DEF Init, Registry
<1>3. failures \in Seq(Record) /\ Len(failures) <= MaxFailures
  BY BoundsAssumption DEF Init
<1>4. stored \in Persisted \cup {None} /\ hydrating = {stored} /\ changes \in 0 .. MaxChanges
  BY StoredAssumption, BoundsAssumption DEF Init
<1>5. ~Forgotten
  BY DEF Init, Forgotten
<1>6. StoreOK
  BY <1>1, <1>2, <1>3, <1>4, <1>5 DEF Init, StoreOK
<1>7. Idle \in Call /\ call = [c \in Caller |-> Idle]
  BY KnownIdle DEF Init, Known
<1>8. CallsKnown
  BY <1>7, KnownIdle DEF CallsKnown
<1> QED
  BY <1>6, <1>8 DEF HubInv

\* What is hydrated is sanitized, field by field.
LEMMA SanitizedTyped ==
    ASSUME NEW s \in Persisted, settings \in Settings
    PROVE  /\ Sanitized(s).settings \in Settings
           /\ Sanitized(s).failures \in Seq(Record) /\ Len(Sanitized(s).failures) <= MaxFailures
<1>1. /\ s.failures \in Seq(Record)
      /\ s.settings.profile \in Profile \cup {None} /\ s.settings.context \in Context \cup {None}
      /\ s.settings.experimental \in BOOLEAN \cup {None}
  BY DEF Persisted
<1>2. Sanitized(s).failures = Newest(s.failures)
  BY DEF Sanitized
<1>3. Sanitized(s).settings \in Settings
  BY <1>1 DEF Sanitized, Settings, Profile, First
<1> QED
  BY <1>1, <1>2, <1>3, NewestTyped

\* A record parts the consent from the profile only if it has the one without the other.
LEMMA SanitizedConsents ==
    ASSUME NEW s \in Persisted, settings \in Settings, ~Unconsented, settings' = Sanitized(s).settings, Unconsented'
    PROVE  s.settings.profile = None /\ s.settings.experimental = FALSE
<1>1. s.settings.experimental \in BOOLEAN \cup {None} /\ settings.experimental \in BOOLEAN /\ None \notin BOOLEAN
  BY AbsentAssumption DEF Persisted, Settings
<1>2. settings'.profile = "experimental-moe" /\ settings'.experimental # TRUE
  BY DEF Unconsented
<1>3. /\ settings'.profile = IF s.settings.profile = "experimental-moe" /\ s.settings.experimental # TRUE THEN "safe"
                             ELSE First(s.settings.profile, settings.profile)
      /\ settings'.experimental = First(s.settings.experimental, settings.experimental)
  BY DEF Sanitized
<1>4. settings.profile = "experimental-moe" => settings.experimental = TRUE
  BY <1>1 DEF Unconsented
<1>5. s.settings.experimental # TRUE
  BY <1>1, <1>2, <1>3 DEF First
<1>6. s.settings.profile # "experimental-moe"
  BY <1>2, <1>3, <1>5
<1>7. s.settings.profile = None /\ settings.profile = "experimental-moe"
  BY <1>2, <1>3, <1>6 DEF First
<1>8. s.settings.experimental # None
  BY <1>2, <1>3, <1>4, <1>7 DEF First
<1> QED
  BY <1>1, <1>5, <1>7, <1>8

\* The one step that may part them.
Parts ==
    /\ Forgotten' => Forgotten \/ (None \in hydrating /\ hydrating' = {})
    /\ Unconsented' =>
          \/ Unconsented
          \/ \E s \in hydrating \ {None} :
                /\ hydrating' = {}
                /\ s.settings.profile = None /\ s.settings.experimental = FALSE

\* What was stored arrives.
LEMMA HydrateKeeps == ASSUME HubInv, Hydrate PROVE HubInv' /\ Parts
<1>1. StoreOK /\ CallsKnown
  BY DEF HubInv
<1>2. /\ hydrating # {} /\ hydrating' = {} /\ available' = FALSE
      /\ UNCHANGED <<memory, registry, shown, stored, lifecycle, call, changes>>
  BY DEF Hydrate
<1>3. ~Forgotten /\ ~Unconsented
  BY <1>1, <1>2 DEF StoreOK
<1>4. /\ settings' \in Settings /\ failures' \in Seq(Record) /\ Len(failures') <= MaxFailures
      /\ device' \in DeviceProfile \cup {None}
      /\ Forgotten' => device'.failures = << >>
      /\ Parts
  <2>1. CASE None \in hydrating
    <3>1. /\ UNCHANGED <<settings, failures>>
          /\ device' = IF device = None THEN None ELSE [device EXCEPT !.failures = << >>]
      BY <2>1 DEF Hydrate
    <3>2. device' \in DeviceProfile \cup {None} /\ (device' # None => device'.failures = << >>)
      <4>1. CASE device = None
        BY <3>1, <4>1
      <4>2. CASE device # None
        <5>1. device \in DeviceProfile /\ device' = [device EXCEPT !.failures = << >>] /\ << >> \in Seq(Record)
          BY <1>1, <3>1, <4>2 DEF StoreOK
        <5> QED
          BY <5>1 DEF DeviceProfile
      <4> QED
        BY <4>1, <4>2
    <3>3. Unconsented' => Unconsented
      BY <3>1 DEF Unconsented
    <3> QED
      BY <1>1, <1>2, <2>1, <3>1, <3>2, <3>3 DEF StoreOK, Parts, Forgotten
  <2>2. CASE None \notin hydrating
    <3>1. PICK s \in hydrating : settings' = Sanitized(s).settings /\ Remember(Sanitized(s).failures)
      BY <2>2 DEF Hydrate
    <3>2. s \in Persisted /\ s # None
      BY <1>1, <2>2 DEF StoreOK
    <3>3. /\ settings' \in Settings /\ failures' \in Seq(Record) /\ Len(failures') <= MaxFailures
          /\ device' \in DeviceProfile \cup {None} /\ ~Forgotten'
      BY <1>1, <3>1, <3>2, SanitizedTyped, Remembers DEF StoreOK
    <3>4. Unconsented' => s.settings.profile = None /\ s.settings.experimental = FALSE
      BY <1>1, <1>3, <3>1, <3>2, SanitizedConsents DEF StoreOK
    <3> QED
      BY <1>2, <3>2, <3>3, <3>4 DEF Parts
  <2> QED
    BY <2>1, <2>2
<1>5. StoreOK'
  BY <1>1, <1>2, <1>4 DEF StoreOK
<1>6. CallsKnown'
  BY <1>1, <1>2, CallsStay
<1> QED
  BY <1>4, <1>5, <1>6 DEF HubInv

\* Storage that cannot be read leaves the store as it is.
LEMMA UnreadKeeps == ASSUME HubInv, HydrationFails PROVE HubInv' /\ Apart
<1>1. /\ StoreOK /\ CallsKnown /\ hydrating' = {}
      /\ UNCHANGED <<memory, registry, shown, stored, settings, failures, device, available, lifecycle, call, changes>>
  BY DEF HubInv, HydrationFails
<1>2. (Forgotten' <=> Forgotten) /\ (Unconsented' <=> Unconsented)
  BY <1>1 DEF Forgotten, Unconsented
<1>3. StoreOK'
  BY <1>1, <1>2 DEF StoreOK
<1> QED
  BY <1>1, <1>2, <1>3, CallsStay DEF HubInv, Apart

\* A change is counted up to the bound.
LEMMA Counted == ASSUME changes \in 0 .. MaxChanges, Change PROVE changes' \in 0 .. MaxChanges
<1> QED
  BY BoundsAssumption DEF Change

\* The user changes the settings.
LEMMA SettingsKeep ==
    ASSUME HubInv, \/ \E p \in Profile : SetProfileId(p)
                   \/ \E n \in Context : SetContext(n)
                   \/ \E b \in BOOLEAN : SetExperimentalEnabled(b)
    PROVE  HubInv' /\ Apart
<1>1. StoreOK /\ CallsKnown /\ settings \in Settings
  BY DEF HubInv, StoreOK
<1>2. /\ Saves /\ Change
      /\ UNCHANGED <<memory, registry, shown, hydrating, failures, device, available, lifecycle, call>>
  BY DEF SetProfileId, SetContext, SetExperimentalEnabled, Sets
<1>3. settings' \in Settings /\ (Unconsented' => Unconsented)
  <2>1. ASSUME NEW p \in Profile, SetProfileId(p) PROVE settings' \in Settings /\ (Unconsented' => Unconsented)
    <3>1. settings' = [settings EXCEPT !.profile = p] /\ (p = "experimental-moe" => settings.experimental)
      BY <2>1 DEF SetProfileId, Sets
    <3> QED
      BY <1>1, <3>1 DEF Settings, Unconsented
  <2>2. ASSUME NEW n \in Context, SetContext(n) PROVE settings' \in Settings /\ (Unconsented' => Unconsented)
    <3>1. settings' = [settings EXCEPT !.context = n]
      BY <2>2 DEF SetContext, Sets
    <3> QED
      BY <1>1, <3>1 DEF Settings, Unconsented
  <2>3. ASSUME NEW b \in BOOLEAN, SetExperimentalEnabled(b) PROVE settings' \in Settings /\ (Unconsented' => Unconsented)
    <3> DEFINE q == IF ~b /\ settings.profile = "experimental-moe" THEN "safe" ELSE settings.profile
    <3>1. settings' = [settings EXCEPT !.experimental = b, !.profile = q]
      BY <1>1, <2>3 DEF SetExperimentalEnabled, Sets, Settings
    <3>2. q \in Profile /\ (~b => q # "experimental-moe")
      BY <1>1 DEF Settings, Profile
    <3> HIDE DEF q
    <3> QED
      BY <1>1, <3>1, <3>2 DEF Settings, Unconsented
  <2> QED
    BY <2>1, <2>2, <2>3
<1>4. changes' \in 0 .. MaxChanges
  BY <1>1, <1>2, Counted DEF StoreOK
<1>5. stored' \in Persisted
  BY <1>1, <1>2, <1>3, Saved DEF StoreOK
<1>6. Forgotten' <=> Forgotten
  BY <1>2 DEF Forgotten
<1>7. StoreOK'
  BY <1>1, <1>2, <1>3, <1>4, <1>5, <1>6 DEF StoreOK
<1> QED
  BY <1>1, <1>2, <1>3, <1>6, <1>7, CallsStay DEF HubInv, Apart

\* The device is measured, the registry shown, and the runtime probed.
LEMMA LifecycleKeeps ==
    ASSUME HubInv, \/ Opens \/ StartFails \/ Syncs
                   \/ \E b \in BOOLEAN : Collects(b) \/ Probed(b)
    PROVE  HubInv' /\ Apart
<1>1. /\ StoreOK /\ CallsKnown /\ settings \in Settings /\ failures \in Seq(Record)
      /\ lifecycle # None => lifecycle \in [device : Device, registry : Registry \cup {None}]
  BY DEF HubInv, StoreOK
<1> SUFFICES /\ UNCHANGED <<memory, registry, hydrating, settings, failures, call, changes>>
             /\ UNCHANGED device \/ (device' \in DeviceProfile /\ ~Forgotten')
             /\ stored' \in Persisted \cup {None} /\ available' \in BOOLEAN
             /\ shown' \in Registry /\ shown'.accepted \subseteq registry.accepted
             /\ lifecycle' \in [device : Device, registry : Registry \cup {None}] \cup {None}
             /\ lifecycle' # None /\ lifecycle'.registry # None => lifecycle'.registry.accepted \subseteq registry.accepted
  <2>1. /\ Apart
        /\ Forgotten' => device'.failures = << >>
        /\ Forgotten' \/ Unconsented' => hydrating' = {}
    BY <1>1, Together
  <2>2. StoreOK'
    BY <1>1, <2>1 DEF StoreOK
  <2> QED
    BY <1>1, <2>1, <2>2, CallsStay DEF HubInv
<1>2. CASE Opens
  <2>1. /\ lifecycle # None /\ lifecycle.registry # None /\ lifecycle' = [lifecycle EXCEPT !.registry = None]
        /\ shown' = lifecycle.registry /\ SetDeviceProfile(lifecycle.device, FALSE) /\ Saves
        /\ UNCHANGED <<memory, registry, hydrating, settings, failures, available, call, changes>>
    BY <1>2 DEF Opens
  <2>2. lifecycle.device \in Device /\ lifecycle.registry \in Registry
        /\ lifecycle' \in [device : Device, registry : Registry \cup {None}] /\ lifecycle'.registry = None
    BY <1>1, <2>1
  <2>3. device' \in DeviceProfile /\ ~Forgotten'
    BY <1>1, <2>1, <2>2, Profiled
  <2>4. stored' \in Persisted
    BY <1>1, <2>1, Saved
  <2> QED
    BY <1>1, <2>1, <2>2, <2>3, <2>4 DEF StoreOK
<1>3. CASE StartFails
  <2>1. /\ lifecycle' = None /\ (Saves \/ UNCHANGED stored)
        /\ UNCHANGED <<memory, registry, shown, hydrating, settings, failures, device, available, call, changes>>
    BY <1>3 DEF StartFails
  <2>2. stored' \in Persisted \cup {None}
    BY <1>1, <2>1, Saved DEF StoreOK
  <2> QED
    BY <1>1, <2>1, <2>2 DEF StoreOK
<1>4. CASE Syncs
  <2>1. /\ shown' = registry /\ Saves
        /\ UNCHANGED <<memory, registry, hydrating, settings, failures, device, available, lifecycle, call, changes>>
    BY <1>4 DEF Syncs
  <2>2. stored' \in Persisted
    BY <1>1, <2>1, Saved
  <2> QED
    BY <1>1, <2>1, <2>2 DEF StoreOK
<1>5. ASSUME NEW b \in BOOLEAN, Collects(b)
      PROVE  /\ UNCHANGED <<memory, registry, store, call, changes>>
             /\ lifecycle' = [device |-> memory, registry |-> IF b THEN registry ELSE None]
  BY <1>5 DEF Collects
<1>6. CASE \E b \in BOOLEAN : Collects(b)
  <2>1. PICK b \in BOOLEAN : Collects(b)
    BY <1>6
  <2>2. /\ UNCHANGED <<memory, registry, store, call, changes>>
        /\ lifecycle' = [device |-> memory, registry |-> IF b THEN registry ELSE None]
    BY <1>5, <2>1
  <2> QED
    BY <1>1, <2>2 DEF StoreOK, store
<1>7. CASE \E b \in BOOLEAN : Probed(b)
  <2>1. PICK b \in BOOLEAN : Probed(b)
    BY <1>7
  <2>2. /\ lifecycle # None /\ lifecycle' = None /\ SetDeviceProfile(lifecycle.device, b) /\ available' = b /\ Saves
        /\ UNCHANGED <<memory, registry, shown, hydrating, settings, failures, call, changes>>
    BY <2>1 DEF Probed
  <2>3. lifecycle.device \in Device
    BY <1>1, <2>2
  <2>4. device' \in DeviceProfile /\ ~Forgotten'
    BY <1>1, <2>2, <2>3, Profiled
  <2>5. stored' \in Persisted
    BY <1>1, <2>2, Saved
  <2> QED
    BY <1>1, <2>2, <2>4, <2>5 DEF StoreOK
<1> QED
  BY <1>2, <1>3, <1>4, <1>6, <1>7

\* The application is killed and started again.
LEMMA RestartKeeps == ASSUME HubInv, Restarts PROVE HubInv' /\ Apart
<1>1. StoreOK /\ CallsKnown
  BY DEF HubInv
<1>2. /\ hydrating' = {stored} /\ shown' = [ready |-> {}, accepted |-> {}] /\ settings' = Defaults
      /\ failures' = << >> /\ device' = None /\ available' = FALSE /\ lifecycle' = None
      /\ call' = [c \in Caller |-> Idle] /\ UNCHANGED <<memory, stored>> /\ Change
  BY DEF Restarts
<1>3. registry' \in Registry
  BY <1>1 DEF Restarts, StoreOK, Registry
<1>4. settings' \in Settings /\ ~Unconsented'
  BY <1>2, ContextAssumption DEF Defaults, Settings, Profile, Unconsented
<1>5. failures' \in Seq(Record) /\ Len(failures') <= MaxFailures /\ changes' \in 0 .. MaxChanges /\ ~Forgotten'
  BY <1>1, <1>2, BoundsAssumption, Counted DEF StoreOK, Forgotten
<1>6. shown' \in Registry /\ shown'.accepted \subseteq registry'.accepted
  BY <1>2 DEF Registry
<1>7. StoreOK'
  BY <1>1, <1>2, <1>3, <1>4, <1>5, <1>6 DEF StoreOK
<1>8. Idle \in Call /\ call' = [c \in Caller |-> Idle]
  BY <1>2, KnownIdle DEF Known
<1>9. CallsKnown'
  BY <1>8, KnownIdle DEF CallsKnown
<1> QED
  BY <1>4, <1>5, <1>7, <1>9 DEF HubInv, Apart

\* What the store of the Hub keeps while the device and the model store change.
LEMMA StoreStays ==
    ASSUME StoreOK, UNCHANGED <<store, lifecycle>>, memory' \in Device, changes' \in 0 .. MaxChanges,
           registry' \in Registry, registry.accepted \subseteq registry'.accepted
    PROVE  StoreOK' /\ Apart
<1>1. (Forgotten' <=> Forgotten) /\ (Unconsented' <=> Unconsented)
  BY DEF store, Forgotten, Unconsented
<1> QED
  BY <1>1 DEF StoreOK, store, Apart

\* The device and the registry change.
LEMMA WorldKeeps ==
    ASSUME HubInv, (\E d \in Device : MemoryChanges(d)) \/ (\E m \in Model : Accepted(m) \/ Installed(m))
    PROVE  HubInv' /\ Apart
<1> USE DEF MemoryChanges, Accepted, Installed
<1>1. StoreOK /\ CallsKnown
  BY DEF HubInv
<1>2. Change /\ UNCHANGED <<store, lifecycle, call>> /\ memory' \in Device
  BY <1>1 DEF StoreOK
<1>3. registry' \in Registry /\ registry.accepted \subseteq registry'.accepted
  BY <1>1 DEF StoreOK, Registry
<1>4. changes' \in 0 .. MaxChanges
  BY <1>1, <1>2, Counted DEF StoreOK
<1>5. StoreOK' /\ Apart
  BY <1>1, <1>2, <1>3, <1>4, StoreStays
<1> QED
  BY <1>1, <1>2, <1>5, CallsStay DEF HubInv

\* What a creation does to itself, with the store as it is.
Creation(c) ==
    \/ ChatBegins(c)
    \/ \E i \in DOMAIN Intent : ClientBegins(c, i)
    \/ Resolves(c) \/ RuntimeMissing(c) \/ Gates(c) \/ Admits(c) \/ Verified(c) \/ VerifyFails(c)

\* A chat asks for a READY model that is eligible.
LEMMA TextIsEligible ==
    ASSUME NEW r, NEW id, NEW policy, HubText(r, id, policy) # None
    PROVE  HubText(r, id, policy) \in Model /\ Eligible(HubText(r, id, policy), r, policy)
<1> DEFINE ready == {m \in Model : Eligible(m, r, policy)}
<1>1. HubText(r, id, policy) = Compatible(ready, id, {"text"}, None, None)
  BY DEF HubText
<1>2. ready \in SUBSET Model /\ \A m \in ready : Eligible(m, r, policy)
  OBVIOUS
<1> HIDE DEF ready
<1>3. HubText(r, id, policy) \in ready
  BY <1>1, <1>2, CompatibleFits
<1> QED
  BY <1>2, <1>3

\* Only models of the catalog are executable.
LEMMA ExecutableReady == ASSUME StoreOK, NEW policy PROVE Executable(registry, policy) \in SUBSET Model
<1> QED
  BY DEF StoreOK, Executable, Registry

\* The contexts of the settings are contexts.
LEMMA ContextsTyped == \A x \in Context : x \in Contexts /\ x # None
<1> QED
  BY ContextAssumption, NoneAssumption DEF Contexts

\* What a screen asks.
LEMMA AskTyped ==
    ASSUME NEW m \in Nat, NEW p \in Profile, NEW x \in Contexts
    PROVE  Asks(m, p, x) \in Asked
<1> QED
  BY DEF Asks, Asked

\* A creation goes on with what is known of it.
LEMMA CreationMoves ==
    ASSUME HubInv, NEW c \in Caller, Creation(c)
    PROVE  \E k : Known(k) /\ call' = [call EXCEPT ![c] = k]
<1>1. StoreOK /\ Known(call[c]) /\ Known(Idle)
  BY KnownIdle DEF HubInv, CallsKnown
<1>2. CASE ChatBegins(c)
  <2> DEFINE i == Asks(HubText(shown, None, Policy), settings.profile, settings.context)
             k == [Idle EXCEPT !.at = "resolving", !.intent = i, !.configured = FALSE]
  <2>1. HubText(shown, None, Policy) # None /\ call' = [call EXCEPT ![c] = k]
    BY <1>2 DEF ChatBegins, Begins
  <2>2. HubText(shown, None, Policy) \in Nat
    <3>1. Model \subseteq Nat
      BY ManifestAssumption
    <3>2. HubText(shown, None, Policy) \in Model
      BY <2>1, TextIsEligible, Zenon
    <3> QED
      BY <3>1, <3>2
  <2>3. i \in Asked
    <3>1. settings.profile \in Profile /\ settings.context \in Context
      BY <1>1 DEF StoreOK, Settings
    <3>2. settings.context \in Contexts
      BY <3>1, ContextsTyped, Zenon
    <3> QED
      BY <2>2, <3>1, <3>2, AskTyped, Zenon
  <2> HIDE DEF i
  <2>4. Known(k)
    BY <2>3, KnownBegins
  <2> QED
    BY <2>1, <2>4
<1>3. ASSUME NEW j \in DOMAIN Intent, ClientBegins(c, j)
      PROVE  \E k : Known(k) /\ call' = [call EXCEPT ![c] = k]
  <2> DEFINE i == Asks(Intent[j].model, Intent[j].profile, Intent[j].context)
             k == [Idle EXCEPT !.at = "resolving", !.intent = i, !.configured = TRUE]
  <2>1. call' = [call EXCEPT ![c] = k]
    BY <1>3 DEF ClientBegins, Begins
  <2>2. i \in Asked
    BY <1>3, IntentAssumption DEF Asks, Asked
  <2> HIDE DEF i
  <2>3. Known(k)
    BY <2>2, KnownBegins
  <2> QED
    BY <2>1, <2>3
<1>4. CASE Resolves(c)
  <2> DEFINE ready == Executable(registry, HostPolicy)
             r == Resolved(ready, call[c].intent, ConfigOf(c))
             k == [call[c] EXCEPT !.at = "resolved", !.model = r.model, !.profile = r.profile,
                                  !.context = Effective(call[c].intent, ConfigOf(c)).context]
  <2>1. call[c].at = "resolving" /\ call' = [call EXCEPT ![c] = IF r = None THEN Idle ELSE k]
    BY <1>4 DEF Resolves
  <2>2. ready \in SUBSET Model
    BY <1>1, ExecutableReady
  <2>3. ConfigOf(c) = Cfg(call[c])
    BY DEF ConfigOf, Cfg
  <2>4. r # None => Known(k)
    BY <1>1, <2>1, <2>2, <2>3, KnownResolves
  <2> HIDE DEF r, k
  <2> QED
    BY <1>1, <2>1, <2>4
<1>5. CASE Gates(c)
  <2> DEFINE k == [call[c] EXCEPT !.at = "gated", !.consent = settings.experimental]
  <2>1. call[c].at = "resolved" /\ (call' = [call EXCEPT ![c] = k] \/ call' = [call EXCEPT ![c] = Idle])
    BY <1>5 DEF Gates
  <2>2. settings.experimental \in BOOLEAN
    BY <1>1 DEF StoreOK, Settings
  <2>3. Known(k)
    BY <1>1, <2>1, <2>2, KnownGates
  <2> QED
    BY <1>1, <2>1, <2>3
<1>6. CASE Admits(c)
  <2> DEFINE r == Resolution(HostDevice, call[c].model, call[c].profile, call[c].context)
             k == [call[c] EXCEPT !.at = "admitted", !.dimensions = r.dimensions]
  <2>1. call[c].at = "gated"
        /\ call' = IF Allowed(r, call[c].consent) THEN [call EXCEPT ![c] = k] ELSE [call EXCEPT ![c] = Idle]
    BY <1>6 DEF Admits
  <2>2. Allowed(r, call[c].consent) => Known(k)
    BY <1>1, <2>1, KnownAdmits
  <2> HIDE DEF r, k
  <2> QED
    BY <1>1, <2>1, <2>2
<1>7. CASE Verified(c)
  <2> DEFINE k == [call[c] EXCEPT !.at = "loading"]
  <2>1. call[c].at = "admitted" /\ call' = [call EXCEPT ![c] = k]
    BY <1>7 DEF Verified, Enters
  <2>2. Known(k)
    BY <1>1, <2>1, KnownEnters
  <2> QED
    BY <2>1, <2>2
<1>8. CASE VerifyFails(c) \/ RuntimeMissing(c)
  BY <1>1, <1>8 DEF VerifyFails, RuntimeMissing
<1> QED
  BY <1>2, <1>3, <1>4, <1>5, <1>6, <1>7, <1>8 DEF Creation

\* Its steps before the load leave the store as it is; a verification that fails
\* changes the registry.
LEMMA CreationKeeps == ASSUME HubInv, NEW c \in Caller, Creation(c) PROVE HubInv' /\ Apart
<1>1. StoreOK
  BY DEF HubInv
<1>2. UNCHANGED <<memory, store, lifecycle, changes>>
  BY DEF Creation, ChatBegins, ClientBegins, Begins, Resolves, RuntimeMissing, Gates, Admits, Verified, VerifyFails
<1>3. registry' \in Registry /\ registry.accepted \subseteq registry'.accepted
  <2>1. CASE VerifyFails(c)
    BY <1>1, <2>1 DEF VerifyFails, StoreOK, Registry
  <2>2. CASE ~VerifyFails(c)
    <3>1. UNCHANGED registry
      BY <2>2 DEF Creation, ChatBegins, ClientBegins, Begins, Resolves, RuntimeMissing, Gates, Admits, Verified
    <3> QED
      BY <1>1, <3>1 DEF StoreOK
  <2> QED
    BY <2>1, <2>2
<1>4. memory' \in Device /\ changes' \in 0 .. MaxChanges
  BY <1>1, <1>2 DEF StoreOK
<1>5. StoreOK' /\ Apart
  BY <1>1, <1>2, <1>3, <1>4, StoreStays
<1>6. CallsKnown'
  BY CreationMoves, CallerMoves DEF HubInv
<1> QED
  BY <1>5, <1>6 DEF HubInv

\* A load forgets the failures of its pair, or is remembered as one.
LEMMA LoadKeeps ==
    ASSUME HubInv, NEW c \in Caller, Loads(c) \/ \E oom \in BOOLEAN : LoadFails(c, oom)
    PROVE  HubInv' /\ Apart
<1>1. StoreOK /\ CallsKnown /\ call[c] \in Call /\ Known(call[c])
  BY DEF HubInv, CallsKnown
<1>2. /\ call[c].at = "loading" /\ call' = [call EXCEPT ![c] = Idle]
      /\ UNCHANGED <<memory, registry, shown, hydrating, settings, available, lifecycle, changes>> /\ Saves
  BY DEF Loads, LoadFails
<1>3. CallsKnown'
  BY <1>1, <1>2, KnownIdle, CallerMoves
<1>4. \E list \in Seq(Record) : Len(list) <= MaxFailures /\ Remember(list)
  <2>1. failures \in Seq(Record) /\ Len(failures) <= MaxFailures
    BY <1>1 DEF StoreOK
  <2>2. CASE Loads(c)
    <3> DEFINE list == Without(failures, call[c].model, call[c].profile)
    <3>1. Remember(list)
      BY <2>2 DEF Loads, ClearRuntimeFailure
    <3>2. list \in Seq(Record) /\ Len(list) <= Len(failures)
      BY <2>1, WithoutTyped
    <3> HIDE DEF list
    <3>3. Len(list) <= MaxFailures
      BY <2>1, <3>2, BoundsAssumption
    <3> QED
      BY <3>1, <3>2, <3>3
  <2>3. ASSUME NEW oom \in BOOLEAN, LoadFails(c, oom)
        PROVE  \E list \in Seq(Record) : Len(list) <= MaxFailures /\ Remember(list)
    <3> DEFINE f == [model |-> call[c].model, profile |-> call[c].profile, memory |-> oom]
               list == Newest(Append(failures, f))
    <3>1. Remember(list)
      BY <2>3 DEF LoadFails, RecordRuntimeFailure
    <3>2. f \in Record
      BY <1>1, <1>2 DEF Known, Named, Record
    <3> HIDE DEF f
    <3>3. Append(failures, f) \in Seq(Record)
      BY <2>1, <3>2
    <3>4. list \in Seq(Record) /\ Len(list) <= MaxFailures
      BY <3>3, NewestTyped
    <3> QED
      BY <3>1, <3>4
  <2> QED
    BY <2>2, <2>3
<1>5. /\ failures' \in Seq(Record) /\ Len(failures') <= MaxFailures
      /\ device' \in DeviceProfile \cup {None}
      /\ ~Forgotten'
  BY <1>1, <1>4, Remembers
<1>6. stored' \in Persisted
  BY <1>1, <1>2, <1>5, Saved DEF StoreOK
<1>7. Apart /\ (Forgotten' \/ Unconsented' => hydrating' = {})
  BY <1>1, <1>2, <1>5, Together
<1>8. StoreOK'
  BY <1>1, <1>2, <1>5, <1>6, <1>7 DEF StoreOK
<1> QED
  BY <1>3, <1>7, <1>8 DEF HubInv

\* Every step keeps the invariant, and only the merge parts anything.
LEMMA NextHub == HubInv /\ [Next]_vars => HubInv' /\ Parts
<1> SUFFICES ASSUME HubInv, [Next]_vars PROVE HubInv' /\ Parts
  OBVIOUS
<1>1. CASE UNCHANGED vars
  <2>1. UNCHANGED call /\ StoreOK' /\ Apart
    <3>1. StoreOK /\ UNCHANGED <<store, lifecycle, memory, changes, registry, call>>
      BY <1>1 DEF vars, store, HubInv
    <3>2. memory' \in Device /\ changes' \in 0 .. MaxChanges /\ registry' \in Registry
          /\ registry.accepted \subseteq registry'.accepted
      BY <3>1 DEF StoreOK
    <3> QED
      BY <3>1, <3>2, StoreStays
  <2> QED
    BY <2>1, CallsStay DEF HubInv, Apart, Parts
<1>2. CASE Next
  <2>1. \/ Hydrate \/ HydrationFails \/ Restarts
        \/ (\E p \in Profile : SetProfileId(p)) \/ (\E n \in Context : SetContext(n))
        \/ \E b \in BOOLEAN : SetExperimentalEnabled(b)
        \/ Opens \/ StartFails \/ Syncs \/ \E b \in BOOLEAN : Collects(b) \/ Probed(b)
        \/ (\E d \in Device : MemoryChanges(d)) \/ (\E m \in Model : Accepted(m) \/ Installed(m))
        \/ \E c \in Caller : Creation(c) \/ Loads(c) \/ \E oom \in BOOLEAN : LoadFails(c, oom)
    BY <1>2, Zenon DEF Next, Creation
  <2>2. (HubInv' /\ Parts) \/ (HubInv' /\ Apart)
    BY <2>1, HydrateKeeps, UnreadKeeps, RestartKeeps, SettingsKeep, LifecycleKeeps, WorldKeeps, CreationKeeps,
       LoadKeeps, Zenon
  <2> QED
    BY <2>2 DEF Apart, Parts
<1> QED
  BY <1>1, <1>2

\* So it holds in every reachable state.
LEMMA HubInvHolds == Spec => []HubInv
<1> QED
  BY InitHub, NextHub, PTL DEF Spec

\* In every reachable state the device profile remembers the failures of the store,
\* no more than the cap, or, once hydrated, none of them; what was admitted as an
\* experiment was consented to; no screen shows a licence as accepted that is not;
\* and each creation knows the model, profile and context it resolved
\* (store/inferenceStore.ts, lifecycle.ts and HubHost.createSession).
THEOREM HubIsInductive == Spec => []HubInductive
<1> QED
  BY HubInvHolds, HubInvMeans, PTL

\* Whatever was stored, only the merge of nothing makes the device profile forget
\* the failures, and only that of a refusal without a profile parts the profile
\* from its consent (merge, sanitizePersistedState).
THEOREM OnlyHydrationEverParts == Spec => OnlyHydrationParts
<1>1. HubInv /\ [Next]_vars =>
        [/\ Forgotten' => Forgotten \/ (None \in hydrating /\ hydrating' = {})
         /\ Unconsented' =>
               \/ Unconsented
               \/ \E s \in hydrating \ {None} :
                     /\ hydrating' = {}
                     /\ s.settings.profile = None /\ s.settings.experimental = FALSE]_vars
  BY NextHub, Zenon DEF Parts
<1> QED
  BY <1>1, HubInvHolds, PTL DEF Spec, OnlyHydrationParts

\* Every client gets the model it names, a stand-in only for a preferred one, with
\* its own profile, and at least the context it asks within what the model declares
\* (resolve of client.ts, resolveRuntimeProfile, contextParams).
THEOREM AlwaysServesWhatWasAsked == Spec => []ServesWhatWasAsked
<1> QED
  BY HubInvHolds, HubInvMeans, PTL

-----------------------------------------------------------------------------
(* What is judged twice is judged the same.                                *)

\* The device the host judges by.
LEMMA HostTyped ==
    ASSUME StoreOK
    PROVE  /\ HostDevice \in DeviceProfile /\ HostDevice.runtime = TRUE
           /\ device # None => HostDevice.failures = device.failures
           /\ device # None /\ device.runtime = TRUE => HostDevice = device
<1>1. CASE device = None
  <2>1. HostDevice = [physical |-> memory.physical, available |-> memory.available,
                      runtime |-> TRUE, failures |-> << >>]
    BY <1>1, Zenon DEF HostDevice, Measured
  <2>2. memory.physical \in Measure /\ memory.available \in Measure /\ << >> \in Seq(Record)
    BY DeviceAssumption DEF StoreOK
  <2> QED
    BY <1>1, <2>1, <2>2 DEF DeviceProfile
<1>2. CASE device # None
  <2>1. device \in DeviceProfile
    BY <1>2 DEF StoreOK
  <2>2. HostDevice = [device EXCEPT !.runtime = TRUE]
    BY <1>2, Zenon DEF HostDevice
  <2> QED
    BY <1>2, <2>1, <2>2 DEF DeviceProfile
<1> QED
  BY <1>1, <1>2

\* "safe" is judged by the device alone.
LEMMA SafeForgives ==
    ASSUME NEW d1, NEW d2, d1.physical = d2.physical, d1.available = d2.available, d1.runtime = d2.runtime,
           NEW m, NEW x \in Contexts, x # None, NEW e \in BOOLEAN, Allowed(Resolution(d1, m, "safe", x), e)
    PROVE  Allowed(Resolution(d2, m, "safe", x), e)
<1>1. "safe" \in Profile
  BY DEF Profile
<1>2. \A d : /\ Settled(d, m, "safe") = "safe"
             /\ ContextOf(d, Wanted(m, "safe"), x) = x
             /\ ~Locked("safe", Ooms(d, m))
  BY <1>1, AskedFor DEF ContextOf, Locked
<1>3. /\ UNSUPPORTED \in Against(d2, m, "safe", x) => UNSUPPORTED \in Against(d1, m, "safe", x)
      /\ NOT_RECOMMENDED \in Against(d2, m, "safe", x) => NOT_RECOMMENDED \in Against(d1, m, "safe", x)
      /\ EXPERIMENTAL \in Against(d2, m, "safe", x) => EXPERIMENTAL \in Against(d1, m, "safe", x)
  BY <1>2, AgainstMeans
<1> QED
  BY <1>3, AllowedMeans

\* So it is whatever is remembered.
LEMMA SafeOpen == HubInv => SafeStaysOpen
<1> SUFFICES ASSUME HubInv, NEW m \in Model, Admissible(m, "safe", settings.context, << >>)
             PROVE  Admissible(m, "safe", settings.context, failures)
  BY DEF SafeStaysOpen
<1> DEFINE d1 == [HostDevice EXCEPT !.failures = << >>]
           d2 == [HostDevice EXCEPT !.failures = failures]
<1>1. StoreOK
  BY DEF HubInv
<1>2. d1.physical = d2.physical /\ d1.available = d2.available /\ d1.runtime = d2.runtime
  BY <1>1, HostTyped DEF DeviceProfile
<1>3. settings.context \in Contexts /\ settings.context # None /\ settings.experimental \in BOOLEAN
  BY <1>1, ContextsTyped DEF StoreOK, Settings
<1>4. Allowed(Resolution(d1, m, "safe", settings.context), settings.experimental)
  BY Zenon DEF Admissible
<1> HIDE DEF d1, d2
<1>5. Allowed(Resolution(d2, m, "safe", settings.context), settings.experimental)
  BY <1>2, <1>3, <1>4, SafeForgives
<1> QED
  BY <1>5, Zenon DEF Admissible, d2

\* Whatever fails to load, and whatever is remembered of it, "safe" stays open on a
\* model it was open to (resolveRuntimeProfile).
THEOREM SafeAlwaysOpen == Spec => []SafeStaysOpen
<1> QED
  BY HubInvHolds, SafeOpen, PTL

\* A model that the resolver supports fits the client's requirements, too: the
\* bound on the context they judge by is the one every manifest declares.
LEMMA SupportedFits ==
    ASSUME NEW d, NEW m \in Model, NEW p \in Profile, NEW x \in Nat, UNSUPPORTED \notin Against(d, m, p, x)
    PROVE  Supported(m) >= x
<1>1. Manifest[m].maximum # None /\ Manifest[m].maximum \in Nat
  BY CatalogAssumption, ManifestAssumption DEF Measure
<1>2. x # None /\ ~Below(Manifest[m].maximum, ContextOf(d, Wanted(m, p), x))
  BY AgainstMeans, NoneAssumption
<1>3. ~Below(Manifest[m].maximum, x)
  BY <1>2 DEF ContextOf
<1> QED
  BY <1>1, <1>2, <1>3 DEF Below, Supported, First

\* The client resolves the model a screen sends to itself.
LEMMA ResolvesToItself ==
    ASSUME NEW ready, NEW m \in ready, m \in Nat, NEW p \in Profile, NEW x \in Nat,
           "text" \in Manifest[m].capabilities, Supported(m) >= x
    PROVE  Resolved(ready, Asks(m, p, x), NoConfig) = [model |-> m, profile |-> p]
<1> DEFINE i == Asks(m, p, x)
           e == Effective(i, NoConfig)
<1>1. m # None /\ p # None /\ x # None
  BY NoneAssumption
<1>2. i.model = m /\ i.profile = p /\ i.context = x /\ i.capabilities = {"text"}
  BY DEF Asks
<1>3. /\ NoConfig.capabilities = {} /\ NoConfig.context = None /\ NoConfig.minimumContext = None
      /\ NoConfig.runtimes = None /\ NoConfig.aliases = << >> /\ DOMAIN << >> = {}
  BY DEF NoConfig
<1> HIDE DEF i
<1>4. e.capabilities = {"text"} /\ e.context = x /\ e.runtimes = None
  BY <1>1, <1>2, <1>3 DEF Effective, Larger, First
<1>5. Requested(i, NoConfig) = m
  BY <1>1, <1>2 DEF Requested, First
<1>6. Aliased(i, NoConfig).model = m
  BY <1>3, <1>5 DEF Aliased
<1>7. RequestedProfile(i, NoConfig) = p
  BY <1>1, <1>2 DEF RequestedProfile, First
<1>8. Compatible(ready, m, {"text"}, x, None) = m
  <2>1. {"text"} \subseteq (Manifest[m].capabilities \cap {"text"})
    OBVIOUS
  <2> QED
    BY <1>1, <2>1, CompatibleItself
<1>9. Resolved(ready, i, NoConfig) =
        Chosen(Compatible(ready, Aliased(i, NoConfig).model, e.capabilities, e.context, e.runtimes),
               RequestedProfile(i, NoConfig))
  BY <1>1, <1>2, Zenon DEF Resolved
<1>10. Resolved(ready, i, NoConfig) = Chosen(m, p)
  BY <1>4, <1>6, <1>7, <1>8, <1>9
<1> QED
  BY <1>1, <1>10 DEF Chosen, First, i

\* A model that is not executable is resolved to nothing.
LEMMA ResolvesToNothing ==
    ASSUME NEW ready, NEW m \in Nat, m \notin ready, NEW p, NEW x
    PROVE  Resolved(ready, Asks(m, p, x), NoConfig) = None
<1> DEFINE i == Asks(m, p, x)
           e == Effective(i, NoConfig)
<1>1. m # None /\ i.model = m /\ NoConfig.aliases = << >> /\ DOMAIN << >> = {}
  BY NoneAssumption DEF Asks, NoConfig
<1> HIDE DEF i, e
<1>2. Aliased(i, NoConfig).model = m
  BY <1>1 DEF Requested, First, Aliased
<1>3. Compatible(ready, m, e.capabilities, e.context, e.runtimes) = None
  BY <1>1, CompatibleAbsent
<1>4. Resolved(ready, i, NoConfig) =
        Chosen(Compatible(ready, Aliased(i, NoConfig).model, e.capabilities, e.context, e.runtimes),
               RequestedProfile(i, NoConfig))
  BY <1>1, Zenon DEF Resolved, e
<1> QED
  BY <1>2, <1>3, <1>4 DEF Chosen, i

\* The screens, the client and the host agree, however old the registry shown.
LEMMA ScreensAreRight == HubInv => ScreensAgree
<1> SUFFICES ASSUME HubInv PROVE ScreensAgree
  OBVIOUS
<1> DEFINE m == HubText(shown, None, Policy)
           ready == Executable(registry, HostPolicy)
           p == settings.profile
           x == settings.context
           b == settings.experimental
<1>1. StoreOK
  BY DEF HubInv
<1>2. p \in Profile /\ x \in Nat /\ x # None /\ b \in BOOLEAN
  <2>1. p \in Profile /\ x \in Context /\ b \in BOOLEAN
    BY <1>1 DEF StoreOK, Settings
  <2>2. x \in Contexts /\ x # None
    BY <2>1, ContextsTyped, Zenon
  <2> QED
    BY <2>1, <2>2 DEF Contexts
<1> SUFFICES ASSUME m # None
             PROVE  IF m \in ready
                    THEN /\ Resolved(ready, Asks(m, p, x), NoConfig) = [model |-> m, profile |-> p]
                         /\ Admissible(m, p, x, HostDevice.failures)
                    ELSE Resolved(ready, Asks(m, p, x), NoConfig) = None
  BY Zenon DEF ScreensAgree
<1>3. m \in Model /\ Eligible(m, shown, Policy)
  BY TextIsEligible
<1>4. /\ Policy.device = device /\ Policy.profile = p /\ Policy.context = x /\ Policy.experimental = b
      /\ Policy.version => device # None /\ device.runtime
  BY DEF Policy
<1> HIDE DEF m, p, x, b, ready
<1>5. m \in Executable(shown, Policy) /\ "text" \in Manifest[m].capabilities
  BY <1>3 DEF Eligible
<1>6. device # None /\ device.runtime
  BY <1>4, <1>5 DEF Executable
<1>7. Allowed(Resolution(device, m, p, x), b)
  BY <1>3, <1>4, <1>6 DEF Eligible
<1>8. UNSUPPORTED \notin Against(device, m, p, x)
  BY <1>2, <1>7, AllowedMeans
<1>9. Supported(m) >= x
  BY <1>2, <1>3, <1>8, SupportedFits
<1>10. m \in Nat
  <2>1. Model \subseteq Nat
    BY ManifestAssumption
  <2> QED
    BY <1>3, <2>1
<1>11. m \in ready => Resolved(ready, Asks(m, p, x), NoConfig) = [model |-> m, profile |-> p]
  BY <1>2, <1>5, <1>9, <1>10, ResolvesToItself
<1>12. m \notin ready => Resolved(ready, Asks(m, p, x), NoConfig) = None
  BY <1>10, ResolvesToNothing
<1>13. device.runtime = TRUE /\ device \in DeviceProfile
  BY <1>1, <1>6 DEF StoreOK, DeviceProfile
<1>14. HostDevice = device
  BY <1>1, <1>6, <1>13, HostTyped
<1>15. [HostDevice EXCEPT !.failures = HostDevice.failures] = device
  BY <1>13, <1>14 DEF DeviceProfile
<1>16. Admissible(m, p, x, HostDevice.failures)
  BY <1>7, <1>15 DEF Admissible, b
<1> QED
  BY <1>11, <1>12, <1>16

\* A model that is open by itself is open with its own profile, unless just that
\* one ran out of memory.
LEMMA OwnProfile ==
    ASSUME NEW d, NEW m \in Model, NEW e \in BOOLEAN, Allowed(Resolution(d, m, None, None), e),
           ~\E f \in Range(d.failures) : f.model = m /\ f.memory /\ f.profile = Manifest[m].profile
    PROVE  Allowed(Resolution(d, m, Manifest[m].profile, None), e)
<1> DEFINE p == Manifest[m].profile
<1>1. /\ p \in Profile /\ p # None
      /\ Manifest[m].moe => p = "experimental-moe"
      /\ p = "experimental-moe" => Manifest[m].experimental
  BY CatalogAssumption, ManifestAssumption, NoneAssumption
<1>2. Wanted(m, None) = p
  BY <1>1 DEF Wanted
<1>3. Wanted(m, p) = p /\ Settled(d, m, p) = p
  BY <1>1, AskedFor
<1>4. ~Locked(p, Ooms(d, m))
  BY DEF Locked, Ooms
<1> HIDE DEF p
<1>5. UNSUPPORTED \in Against(d, m, p, None) => UNSUPPORTED \in Against(d, m, None, None)
  BY <1>2, <1>3, AgainstMeans
<1>6. NOT_RECOMMENDED \in Against(d, m, p, None) => NOT_RECOMMENDED \in Against(d, m, None, None)
  BY <1>3, <1>4, AgainstMeans
<1>7. EXPERIMENTAL \in Against(d, m, p, None) => EXPERIMENTAL \in Against(d, m, None, None)
  BY <1>1, <1>3, AgainstMeans
<1>8. Allowed(Resolution(d, m, p, None), e)
  BY <1>5, <1>6, <1>7, AllowedMeans
<1> QED
  BY <1>8 DEF p

\* So do the provider's automatic ids.
LEMMA AliasesAreRight == HubInv => AliasesAgree
<1> SUFFICES ASSUME HubInv PROVE AliasesAgree
  OBVIOUS
<1> DEFINE b == settings.experimental
           policy == [available |-> TRUE, version |-> TRUE, experimental |-> b,
                      device |-> HostDevice, profile |-> None, context |-> None]
           m == HubText(registry, None, policy)
           p == Manifest[m].profile
<1>1. StoreOK /\ b \in BOOLEAN
  BY DEF HubInv, StoreOK, Settings
<1> SUFFICES ASSUME m # None,
                    ~\E f \in Range(HostDevice.failures) : f.model = m /\ f.memory /\ f.profile = p
             PROVE  Admissible(m, p, None, HostDevice.failures)
  BY Zenon DEF AliasesAgree
<1>2. m \in Model /\ Eligible(m, registry, policy)
  BY TextIsEligible
<1>3. policy.device = HostDevice /\ policy.profile = None /\ policy.context = None /\ policy.experimental = b
  OBVIOUS
<1> HIDE DEF m, policy
<1>4. HostDevice \in DeviceProfile /\ HostDevice # None
  BY <1>1, HostTyped, AbsentAssumption
<1>5. Allowed(Resolution(HostDevice, m, None, None), b)
  BY <1>2, <1>3, <1>4 DEF Eligible
<1>6. Allowed(Resolution(HostDevice, m, p, None), b)
  BY <1>1, <1>2, <1>5, OwnProfile
<1>7. [HostDevice EXCEPT !.failures = HostDevice.failures] = HostDevice
  BY <1>4 DEF DeviceProfile
<1> QED
  BY <1>6, <1>7 DEF Admissible

\* Who judges a model twice judges it the same, in every reachable state: what a
\* screen calls ready over its own, perhaps old, registry the client resolves to
\* itself and the host admits, or the client refuses when the model store has it
\* READY no more; so with the provider's automatic ids; and "safe" stays open
\* (executionEligible, selectCompatibleModel and HubHost.createSession).
THEOREM GatesAlwaysAgree == Spec => []GatesAgree
<1>1. HubInv => GatesAgree
  BY ScreensAreRight, AliasesAreRight, SafeOpen DEF GatesAgree
<1> QED
  BY <1>1, HubInvHolds, PTL

\* Only the host's admission admits a creation.
LEMMA AdmittedByHost ==
    ASSUME HubInv, [Next]_vars, NEW c \in Caller, call[c].at = "gated", call'[c].at = "admitted"
    PROVE  Admits(c)
<1>1. CallsKnown /\ Idle.at = "idle" /\ call[c].at # call'[c].at
  BY DEF HubInv, Idle
<1>2. ~UNCHANGED call
  BY <1>1
<1>3. ASSUME NEW d \in Caller, Creation(d) \/ Loads(d) \/ \E oom \in BOOLEAN : LoadFails(d, oom)
      PROVE  d = c
  <2>1. \E k : call' = [call EXCEPT ![d] = k]
    <3>1. CASE Creation(d)
      BY <3>1, CreationMoves
    <3>2. CASE Loads(d) \/ \E oom \in BOOLEAN : LoadFails(d, oom)
      BY <3>2 DEF Loads, LoadFails
    <3> QED
      BY <1>3, <3>1, <3>2
  <2> QED
    BY <1>1, <2>1 DEF CallsKnown
<1>4. ~Hydrate /\ ~HydrationFails /\ ~Opens /\ ~StartFails /\ ~Syncs /\ ~UNCHANGED vars
  BY <1>2 DEF Hydrate, HydrationFails, Opens, StartFails, Syncs, vars
<1>5. ~Restarts
  BY <1>1 DEF Restarts
<1>6. /\ ~\E p \in Profile : SetProfileId(p)
      /\ ~\E n \in Context : SetContext(n)
      /\ ~\E b \in BOOLEAN : SetExperimentalEnabled(b) \/ Collects(b) \/ Probed(b)
      /\ ~\E d \in Device : MemoryChanges(d)
      /\ ~\E m \in Model : Accepted(m) \/ Installed(m)
  BY <1>2 DEF SetProfileId, SetContext, SetExperimentalEnabled, Sets, Collects, Probed, MemoryChanges, Accepted, Installed
<1>7. \E d \in Caller : Creation(d) \/ Loads(d) \/ \E oom \in BOOLEAN : LoadFails(d, oom)
  BY <1>4, <1>5, <1>6, Zenon DEF Next, Creation
<1>8. Creation(c) \/ Loads(c) \/ \E oom \in BOOLEAN : LoadFails(c, oom)
  BY <1>3, <1>7
<1>9. call[c].at \notin {"idle", "resolving", "resolved", "admitted", "loading"}
  OBVIOUS
<1>10. ~ChatBegins(c) /\ ~(\E i \in DOMAIN Intent : ClientBegins(c, i)) /\ ~Resolves(c) /\ ~RuntimeMissing(c) /\ ~Gates(c)
       /\ ~Verified(c) /\ ~VerifyFails(c) /\ ~Loads(c) /\ ~\E oom \in BOOLEAN : LoadFails(c, oom)
  BY <1>1, <1>9 DEF ChatBegins, ClientBegins, Begins, Resolves, RuntimeMissing, Gates, Verified, VerifyFails, Loads, LoadFails,
     CallsKnown, Idle
<1> QED
  BY <1>8, <1>10, Zenon DEF Creation

\* The host judges by the failures that are remembered.
LEMMA AdmissionRemembers ==
    ASSUME HubInv, [Next]_vars, NEW c \in Caller,
           device # None, ~Forgotten, call[c].at = "gated", call'[c].at = "admitted", call[c].profile # "safe",
           NEW f \in Range(failures), f.memory
    PROVE  f.model # call[c].model \/ f.profile # call[c].profile
<1> DEFINE m == call[c].model
           p == call[c].profile
           x == call[c].context
           r == Resolution(HostDevice, m, p, x)
<1>1. StoreOK /\ CallsKnown /\ Known(call[c]) /\ call[c] \in Call /\ call \in [Caller -> Call]
  BY DEF HubInv, CallsKnown
<1>2. p \in Profile /\ call[c].consent \in BOOLEAN
  BY <1>1 DEF Known, Named, Call
<1>3. HostDevice.failures = failures
  BY <1>1, HostTyped DEF Forgotten
<1>4. call' = IF Allowed(r, call[c].consent)
              THEN [call EXCEPT ![c] = [@ EXCEPT !.at = "admitted", !.dimensions = r.dimensions]]
              ELSE [call EXCEPT ![c] = Idle]
  BY AdmittedByHost, Zenon DEF Admits
<1>5. call' # [call EXCEPT ![c] = Idle]
  BY <1>1 DEF Idle
<1>6. Allowed(r, call[c].consent)
  BY <1>4, <1>5, Zenon
<1>7. NOT_RECOMMENDED \notin Against(HostDevice, m, p, x)
  BY <1>2, <1>6, AllowedMeans
<1>8. ~Locked(p, Ooms(HostDevice, m))
  BY <1>2, <1>7, AgainstMeans, AskedFor
<1> QED
  BY <1>3, <1>8 DEF Locked, Ooms

\* What ran out of memory is not admitted again with the same model and profile
\* while the failure is remembered, on a device that was profiled, unless the merge
\* of an empty storage made it forget (resolveRuntimeProfile under
\* HubHost.createSession).
THEOREM NeverRepeatsBlindly == Spec => NoBlindRepeat
<1>1. HubInv /\ [Next]_vars =>
        [\A c \in Caller :
            /\ device # None /\ ~Forgotten
            /\ call[c].at = "gated" /\ call'[c].at = "admitted" /\ call[c].profile # "safe"
            => \A f \in Range(failures) :
                  f.memory => f.model # call[c].model \/ f.profile # call[c].profile]_vars
  BY AdmissionRemembers
<1> QED
  BY <1>1, HubInvHolds, PTL DEF Spec, NoBlindRepeat
=============================================================================
