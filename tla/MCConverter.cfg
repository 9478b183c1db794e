\* Four command lines, seven lists of manifests, seven files of an operator.
CONSTANTS
    Environment <- MCEnvironment
    MaxSecrets = 3
    Options <- MCOptions
    Manifests <- MCManifests
    Unreadable = Unreadable
    Args <- MCArgs
    Shape <- MCShape
    Joined <- MCJoined
    NoKey = NoKey
    FieldsOf <- MCFieldsOf
    HandStore <- MCHandStore
    Handwritten <- MCHandwritten
SPECIFICATION FairSpec
INVARIANTS ReloadedDistinct 
PROPERTY ConvertEnds
