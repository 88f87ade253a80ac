--------------------------- MODULE MCSetupRoutes -----------------------------
(* The setup of three models (MCCouplerSetup) and, when it has ended with   *)
(* all variables defined, what the processes of two of them do with one of  *)
(* the couplers: two or three ranks each, grids of six points, two fields.  *)
EXTENDS MCCouplerSetup, Routing

Def(isize, kparal) == [kind |-> "def", isize |-> isize, kparal |-> kparal]
AppleAt(offset, length) == [strategy |-> "Apple", offset |-> offset, length |-> length]
SerialOf(length) == [strategy |-> "Serial", length |-> length]
PointsAt(points) == [strategy |-> "Points", points |-> points]
BoxAt(offset, sizeX, sizeY, ldX) ==
  [strategy |-> "Box", offset |-> offset, sizeX |-> sizeX, sizeY |-> sizeY, ldX |-> ldX]
Extent(offset, extent) == [offset |-> offset, extent |-> extent]
OrangeOf(segments) == [strategy |-> "Orange", segments |-> segments]

\* Blocks, columns of a grid of three by two, one rank without points, and what
\* the coupling layer makes for three ranks
Blocks  == Def(0, <<AppleAt(0, 4), AppleAt(4, 2)>>)
Columns == Def(0, <<BoxAt(0, 2, 2, 3), BoxAt(2, 1, 2, 3)>>)
OneRank == Def(0, <<SerialOf(6), SerialOf(0)>>)
Thirds  == [kind |-> "1d", gsize |-> 6, mpisize |-> 3]

\* Not all of the grid, with a point of both ranks and an empty segment
Pieces  == Def(6, <<OrangeOf(<<Extent(0, 2), Extent(3, 0), Extent(4, 1)>>),
                    OrangeOf(<<Extent(1, 1), Extent(3, 1)>>)>>)

\* Points and segments in an order of the program
Mixed   == Def(0, <<PointsAt(<<5, 1, 3>>), PointsAt(<<2, 6, 4>>)>>)
Turned  == Def(0, <<OrangeOf(<<Extent(4, 2), Extent(0, 2)>>), OrangeOf(<<Extent(2, 2)>>)>>)

Half    == Def(0, <<SerialOf(3), SerialOf(0)>>)

\* What the theorems on ordered decompositions assume is true of these, also of
\* those with gaps, with a point that two ranks have or with a rank without points.
ASSUME OrderedLayouts == \A d \in {Blocks, Columns, OneRank, Pieces, Thirds, Half} : WellOrdered(d)

\* A map that is not in ascending order belongs to the component with more ranks
\* in none of them (see UnorderedLayouts).
SetupLayouts ==
  {[src |-> s, dst |-> d] : s, d \in {Blocks, Columns, OneRank, Pieces, Mixed}}
  \cup {[src |-> Thirds, dst |-> d] : d \in {Turned, Half}}
  \cup {[src |-> Turned, dst |-> Mixed], [src |-> Mixed, dst |-> Turned]}

\* One process sends to two that have their points in an order of their own
UnorderedLayouts ==
  {[src |-> Def(0, <<SerialOf(6)>>), dst |-> Mixed]}

RoutedInit == Init /\ RouteInit

Setup == Next /\ UNCHANGED routeVars

\* The four complete programs arrive at the same couplers: after one of them.
Exchange == /\ SetUp /\ AllDefined
            /\ prism_var[1][1].name = "U" /\ prism_var[3][1].name = "U_3"
            /\ RouteNext /\ UNCHANGED vars

RoutedNext == Setup \/ Exchange

RoutedSpec == /\ RoutedInit /\ [][RoutedNext]_<<vars, routeVars>>
              /\ \A p \in Model : WF_vars(Step(p))

=============================================================================
