------------------------ MODULE ExampleContributions ------------------------
(***************************************************************************)
(* Examples/ExampleContributions.cpp: stores the contributions of all      *)
(* modules to the sections of the image with the module each comes from,   *)
(* and shows the largest of them.                                          *)
(***************************************************************************)
EXTENDS ImageSectionStream, FiniteSets, Functions, TLC

CONSTANT CountToShow          \* 20

VARIABLES program, pc,
          contribution,       \* position of the loop over the stream
          contributions,
          shown               \* what was printed

contributionVars == <<contribution, contributions, shown>>

Init ==
  /\ pc = "contributions"
  /\ contribution = 1
  /\ contributions = <<>>
  /\ shown = <<>>

\* Variant: the index is taken for the number of the module.
GetModuleBefore(index) == index

\* ModuleInfoStream::GetModule, the number of the module in the program; indices
\* start at 0.
GetModule(index) == index + 1

RVA(c) == ConvertSectionOffsetToRVA(program.virtualAddresses, c.section, c.offset)

StoreContribution ==
  /\ pc = "contributions" /\ contribution <= Len(program.contributions)
  /\ LET c == program.contributions[contribution]
     IN  contributions' =
           IF RVA(c) = 0 THEN contributions
           ELSE Append(contributions, [objectFile |-> GetModule(c.moduleIndex), rva |-> RVA(c),
                                       size |-> c.size, from |-> contribution])
  /\ contribution' = contribution + 1
  /\ UNCHANGED <<program, pc, shown>>

\* Variant: the smallest contribution comes first.
SmallerFirst(c, d) == c.size <= d.size

LargerFirst(c, d) == c.size >= d.size

\* std::sort may leave contributions of the same size in any order: any of the
\* permutations, which are the bijections, that sorts them.
Sort ==
  /\ pc = "contributions" /\ contribution > Len(program.contributions)
  /\ \E sorted \in Permutations(DOMAIN contributions)
            \cap Bijection(DOMAIN contributions, DOMAIN contributions) :
       /\ \A i, j \in DOMAIN contributions :
            i < j => LargerFirst(contributions[sorted[i]], contributions[sorted[j]])
       /\ contributions' = [i \in DOMAIN contributions |-> contributions[sorted[i]]]
  /\ pc' = "contributions sorted"
  /\ UNCHANGED <<program, contribution, shown>>

ShowLargest ==
  /\ pc = "contributions sorted"
  /\ LET countToShow == IF CountToShow < Len(contributions) THEN CountToShow ELSE Len(contributions)
     IN  shown' = SubSeq(contributions, 1, countToShow)
  /\ pc' = "contributions shown"
  /\ UNCHANGED <<program, contribution, contributions>>

Next == StoreContribution \/ Sort \/ ShowLargest

-----------------------------------------------------------------------------

Located == {c \in DOMAIN program.contributions : RVA(program.contributions[c]) # 0}

\* "log the 20 largest contributions": no contribution with an address is larger
\* than one of those shown and left out, none is shown twice, and as many are shown
\* as asked for if there are that many.
LargestShown ==
  pc = "contributions shown" =>
    LET which == {shown[i].from : i \in DOMAIN shown}
    IN  /\ which \subseteq Located
        /\ Cardinality(which) = Len(shown)
        /\ Len(shown) < CountToShow => which = Located
        /\ \A i \in DOMAIN shown, c \in Located \ which :
             shown[i].size >= program.contributions[c].size
=============================================================================
