CONSTANTS
  OverrideFrames = 2
  Slow = 4
  Brands = {"gm", "honda", "toyota", "hyundai", "volkswagen", "ford", "subaru", "chrysler", "mazda", "nissan", "tesla", "body"}
  Controls <- MCControls
CONSTRAINT FewGoOn
SPECIFICATION Spec
 
INVARIANT PandaAgrees
INVARIANT ReadsAreParsed
INVARIANT TorqueMoves
PROPERTY LkasRests
PROPERTY AnsweredOnce
PROPERTY CountersFollow
PROPERTY ButtonsAlternate
