------------------------------- MODULE MCHost -------------------------------
(***************************************************************************)
(* Instances of Host for TLC.  Each run takes one slice of the             *)
(* configuration space: the dimensions it does not vary have one value.    *)
(***************************************************************************)
EXTENDS Host

View(s, l, o, m, a) == [spot |-> s, size |-> 1, layer |-> l, stay |-> FALSE,
                        output |-> o, mode |-> m, art |-> a]

Plain(m) == View("left", "top", AnyOutput, m, "cat")
Uniform(v) == [p \in Pets |-> v]

\* One pet order, one view per mode: what a tray and a reload can alternate.
MotionViews   == {Plain(m) : m \in Modes} \cup {View("left", "top", AnyOutput, "drag", "dog")}
MotionConfigs == {[order |-> SetToSeq(Pets), view |-> Uniform(v)] : v \in MotionViews}

OnePet == CHOOSE p \in Pets : TRUE

\* Two pets in either order, or one of them: plain; the first on an output of
\* its own, above fullscreen windows and free to be dragged; the first with an
\* anchor that does not parse; both with artwork that may fail to load.
Others == Pets \ {OnePet}
Orders == {SetToSeq(Others) \o <<OnePet>>, <<OnePet>> \o SetToSeq(Others), <<OnePet>>}
PetViews ==
  [plain |-> Plain("fixed"),
   away  |-> View("left", "overlay", "o1", "drag", "cat"),
   bad   |-> View("lefft", "top", "o1", "fixed", "cat"),
   dog   |-> View("left", "top", AnyOutput, "fixed", "dog")]
FirstIs(k) == [p \in Pets |-> PetViews[IF p = OnePet THEN k ELSE "plain"]]
PetsViews   == {PetViews[k] : k \in DOMAIN PetViews}
PetsConfigs == {[order |-> s, view |-> f] :
                  s \in Orders,
                  f \in {FirstIs("plain"), FirstIs("away"), FirstIs("bad"),
                         Uniform(PetViews.dog)}}

\* The same orders, all plain.
OrderConfigs == {[order |-> s, view |-> Uniform(Plain("fixed"))] : s \in Orders}
OrderViews   == {Plain("fixed")}

\* One pet order, any output.
OutputViews   == {View("left", "top", o, "fixed", "cat") : o \in Outputs \cup {AnyOutput}}
OutputConfigs == {[order |-> SetToSeq(Pets), view |-> f] : f \in [Pets -> OutputViews]}
=============================================================================
