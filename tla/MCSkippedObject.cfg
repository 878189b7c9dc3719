SPECIFICATION Spec
CONSTANTS
    first = first
    second = second
    third = third
    contract = contract
    rule = rule
    scope = scope
    term = term
    NoText = NoText
    NumDocs = 2
    Contents = {first, second, third, contract}
    HeadingsOf <- MCHeadingsOf
    Rules = {rule}
    PolicyOf <- MCPolicyOf
    Datasets <- MCDatasets
    Jobs = {j1}
PROPERTIES
    SkippedIsStored
