SPECIFICATION DagSpec
CONSTANTS
    AssetCalls <- MCAssetCalls
    Datasets = {"d1"}
    MaxRows = 2
    MaxCalls = 4
    Null = Null
INVARIANTS DagTypeOK NoDanglingLink OneAssetPerHash AssetsRemember PairsAreSelected
