SPECIFICATION SgSpec
CONSTANTS
    MasterBytes <- MCMasterBytes
    Lines <- MCLines
INVARIANTS
    AnswersFaithfully
PROPERTIES
    ModeFixedInFrame
    CommandsTakeEffectOnce
